---------------------------- MODULE Spec2Model ----------------------------
(***************************************************************************)
(* A model of the YT True History extension: the history store of          *)
(* utils/storage.js (read-modify-write over chrome.storage.local), the     *)
(* service worker's message handlers and categorization queue, the popup's *)
(* tracking toggle and the content script's watch detector.                *)
(*                                                                         *)
(* Every asynchronous handler is a task whose steps are the storage and    *)
(* network operations it awaits: one step performs the awaited operation   *)
(* and runs the synchronous code that follows it up to the next await.     *)
(***************************************************************************)
EXTENDS Integers, Sequences, FiniteSets, TLC

(***************************************************************************)
(* Bounds of the model.                                                    *)
(***************************************************************************)
MaxRewatch == 3
ConcRewatch == 2
MaxQueue == 2
MaxImports == 2
MaxOps == 3
MaxWatched == 61
MaxTimers == 2
MaxAttempts == 1
MaxSampled == 301
MaxPolled == 2

MediaIds == {"a", "b"}
Tasks == {"t1", "t2"}
Workers == {1, 2}
Null == "null"

\* Calendar time in days; the clock steps along these instants.
ClockValues == <<0, 90, 100, 182, 200, 365, 400>>

(***************************************************************************)
(* utils/storage.js and utils/ai.js: constants.                            *)
(***************************************************************************)
RetentionOptions == {"all", "3m", "6m", "1y"}

DEFAULT_SETTINGS ==
  [minWatchPercent |-> 40, minWatchTimeSeconds |-> 300, trackAutoplay |-> TRUE,
   countHiddenTime |-> FALSE, dataRetention |-> "all", openRouterApiKey |-> "",
   aiFeaturesEnabled |-> TRUE, trackingEnabled |-> TRUE]

\* utils/helpers.js VIDEO_CATEGORIES: the 19 labels and 'Uncategorized'.
VIDEO_CATEGORIES ==
  {"Technology", "Programming", "Gaming", "Music", "Education", "Science",
   "Finance", "Health", "Comedy", "News", "Sports", "Cooking", "Travel", "Art",
   "Productivity", "Philosophy", "Politics", "History", "Other", "Uncategorized"}

\* The model's titles are "plain talk" and "gaming stream": the second one
\* contains a word of KEYWORD_HINTS, the first one none.
inferHeuristicCategory(title) ==
  IF title = "gaming stream" THEN "Gaming" ELSE Null

(***************************************************************************)
(* utils/storage.js: the pure part of each store operation, applied to the *)
(* array that getVideos() returned.                                        *)
(***************************************************************************)
\* JavaScript's (x || 1) on a count: 0 stands for a missing or zero count.
OrOne(n) == IF n = 0 THEN 1 ELSE n

Max(x, y) == IF x >= y THEN x ELSE y

\* Array.prototype.findIndex, 1-based; 0 is JavaScript's -1.
findIndex(videos, videoId) ==
  IF \E i \in 1..Len(videos) : videos[i].videoId = videoId
  THEN CHOOSE i \in 1..Len(videos) :
         /\ videos[i].videoId = videoId
         /\ \A j \in 1..(i - 1) : videos[j].videoId # videoId
  ELSE 0

\* The fields of a watch event that the model keeps in its record: title
\* stands for every field the store passes through unchanged.
AsRecord(video) ==
  [videoId |-> video.videoId, title |-> video.title, watchedAt |-> video.watchedAt,
   rewatchCount |-> video.rewatchCount, aiCategory |-> video.aiCategory,
   aiCategoryConfidence |-> video.aiCategoryConfidence]

saveVideoNoIncrement(videos, video) ==
  LET existingIndex == findIndex(videos, video.videoId) IN
  IF existingIndex > 0
  THEN [videos EXCEPT ![existingIndex] = AsRecord(video)]
  ELSE Append(videos, [AsRecord(video) EXCEPT !.rewatchCount = OrOne(video.rewatchCount)])

saveVideoAlwaysPush(videos, video) ==
  Append(videos, [AsRecord(video) EXCEPT !.rewatchCount = OrOne(video.rewatchCount)])

\* Mutant of saveVideoMerge: the existing record's category and confidence
\* win over the event's.
saveVideoKeepsCategory(videos, video) ==
  LET existingIndex == findIndex(videos, video.videoId) IN
  IF existingIndex > 0
  THEN [videos EXCEPT ![existingIndex] =
          [AsRecord(video) EXCEPT
             !.rewatchCount = OrOne(videos[existingIndex].rewatchCount) + 1,
             !.watchedAt = video.watchedAt,
             !.aiCategory = videos[existingIndex].aiCategory,
             !.aiCategoryConfidence = videos[existingIndex].aiCategoryConfidence]]
  ELSE Append(videos, [AsRecord(video) EXCEPT !.rewatchCount = OrOne(video.rewatchCount)])

saveVideoMerge(videos, video) ==
  LET existingIndex == findIndex(videos, video.videoId) IN
  IF existingIndex > 0
  THEN [videos EXCEPT ![existingIndex] =
          [AsRecord(video) EXCEPT
             !.rewatchCount = OrOne(videos[existingIndex].rewatchCount) + 1,
             !.watchedAt = video.watchedAt]]
  ELSE Append(videos, [AsRecord(video) EXCEPT !.rewatchCount = OrOne(video.rewatchCount)])

updateVideoMerge(videos, videoId, category, confidence) ==
  LET index == findIndex(videos, videoId) IN
  IF index = 0 THEN videos
  ELSE [videos EXCEPT ![index] =
          [@ EXCEPT !.aiCategory = category, !.aiCategoryConfidence = confidence]]

deleteVideoFilter(videos, videoId) ==
  SelectSeq(videos, LAMBDA video : video.videoId # videoId)

ImportOneSum(mergedMap, video) ==
  IF video.videoId = Null THEN mergedMap
  ELSE LET i == findIndex(mergedMap, video.videoId) IN
       IF i > 0
       THEN [mergedMap EXCEPT ![i] =
               [video EXCEPT !.rewatchCount =
                  OrOne(mergedMap[i].rewatchCount) + OrOne(video.rewatchCount)]]
       ELSE Append(mergedMap, video)

\* importHistory's forEach over a Map keyed by videoId: a Map keeps the
\* insertion order of its keys, and set() on a present key keeps its place.
ImportOne(mergedMap, video) ==
  IF video.videoId = Null THEN mergedMap
  ELSE LET i == findIndex(mergedMap, video.videoId) IN
       IF i > 0
       THEN [mergedMap EXCEPT ![i] =
               [video EXCEPT !.rewatchCount =
                  Max(OrOne(mergedMap[i].rewatchCount), OrOne(video.rewatchCount))]]
       ELSE Append(mergedMap, video)

RECURSIVE importHistoryMerge(_, _)
importHistoryMerge(current, importedVideos) ==
  IF importedVideos = <<>> THEN current
  ELSE importHistoryMerge(ImportOne(current, Head(importedVideos)), Tail(importedVideos))

\* background/service-worker.js: applyRetentionPolicy's filter.
daysToKeep(dataRetention) ==
  CASE dataRetention = "3m" -> 90
    [] dataRetention = "6m" -> 182
    [] dataRetention = "1y" -> 365
    [] OTHER -> 0

retentionFilterStrict(history, cutoff) ==
  SelectSeq(history, LAMBDA video : video.watchedAt > cutoff)

retentionFilter(history, cutoff) ==
  SelectSeq(history, LAMBDA video : video.watchedAt >= cutoff)


(***************************************************************************)
(* utils/ai.js: categorizeVideoAi.  The file holds two definitions of it;  *)
(* aiBuild says which one the running build loaded.                        *)
(***************************************************************************)
\* What one callOpenRouter round can come to is a record of its kind ("throw":
\* network failure or non-2xx status; "nocontent" and "badjson": data whose
\* content is missing or is not JSON; "json": content that parses) and of
\* the object it parses to.
NoParsed == [category |-> Null, confidence |-> Null]

\* The catch block of each definition.
categorizeFailedHeuristic(title) ==
  LET heuristicCategory == inferHeuristicCategory(title) IN
  [category |-> IF heuristicCategory # Null THEN heuristicCategory ELSE "Uncategorized",
   confidence |-> IF heuristicCategory # Null THEN "medium" ELSE "low"]

categorizeFailedPlain(title) ==
  [category |-> "Uncategorized", confidence |-> "low"]

categorizeFailed(build, title) ==
  IF build = "heuristic" THEN categorizeFailedHeuristic(title)
  ELSE categorizeFailedPlain(title)

\* The result for a response that parsed.
categorizeParsed(build, title, parsed) ==
  LET heuristicCategory == inferHeuristicCategory(title) IN
  IF build = "heuristic"
  THEN [category |->
          IF parsed.category # Null /\ parsed.category # "Uncategorized"
          THEN parsed.category
          ELSE IF heuristicCategory # Null THEN heuristicCategory ELSE "Uncategorized",
        confidence |->
          IF parsed.confidence # Null THEN parsed.confidence
          ELSE IF heuristicCategory # Null THEN "medium" ELSE "low"]
  ELSE [category |-> IF parsed.category # Null THEN parsed.category ELSE "Uncategorized",
        confidence |-> IF parsed.confidence # Null THEN parsed.confidence ELSE "low"]

\* What categorizeVideoAi returns once a callOpenRouter round returned data.
categorizeData(build, title, response) ==
  IF response.kind = "json" THEN categorizeParsed(build, title, response.parsed)
  ELSE categorizeFailed(build, title)

(***************************************************************************)
(* State.                                                                  *)
(***************************************************************************)
VARIABLES
  videos,           \* chrome.storage.local "videos"
  settings,         \* chrome.storage.local "settings" (absent reads as the defaults)
  reportCache,      \* chrome.storage.local "reportCache" (NoReport when absent)
  clock,            \* index of the current instant in ClockValues
  aiQueue,          \* service worker: pending categorization jobs
  queueProcessing,  \* service worker: a worker loop is running
  worker,           \* the invocations of processQueueSafely
  task,             \* the asynchronous handlers in flight
  aiBuild,          \* which definition of categorizeVideoAi is loaded
  popupTracking,    \* popup: state.trackingEnabled
  dashSettings,     \* dashboard: state.settings
  submitted,        \* history: the percent of the last settings form submitted (0: none yet)
  answers,          \* history: the sendResponse calls of the message listener
  upserts,          \* history: saveVideo calls on an id since it was inserted
  started,          \* history: the number of handlers started so far
  pending,          \* history: enqueue calls for an id since its job was last dequeued
  tracker,          \* content script: tracker.js's variables, timers and listeners
  page,             \* the watch page: its media element and visibility
  emitted           \* history: watch events sent since tracking was last reset

storeVars == <<videos, settings, clock>>
queueVars == <<aiQueue, queueProcessing, worker, pending>>
vars == <<videos, settings, clock, aiQueue, queueProcessing, worker, task,
          aiBuild, reportCache, submitted, answers, popupTracking, dashSettings, upserts, started, pending,
          tracker, page, emitted>>
detVars == <<tracker, page, emitted>>
uiVars == <<aiBuild, reportCache, submitted, answers, popupTracking, dashSettings, detVars>>

now == ClockValues[clock]

NoVideo ==
  [videoId |-> Null, title |-> "plain talk", watchedAt |-> 0, autoplay |-> FALSE,
   rewatchCount |-> 0, aiCategory |-> Null, aiCategoryConfidence |-> Null]

NoJob == [videoId |-> Null, title |-> "plain talk"]

\* The report cache when the store has none.
NoReport == [content |-> Null, generatedAt |-> 0]

\* No message has been answered yet.
NoAnswers == [sent |-> 0, type |-> "none", answer |-> [success |-> TRUE, data |-> "none"]]

IdleTask ==
  [pc |-> "idle", op |-> "none", video |-> NoVideo, videoId |-> Null,
   imported |-> <<>>, settings |-> DEFAULT_SETTINGS, videos |-> <<>>,
   cutoff |-> 0, pruned |-> 0, calls |-> 0, queued |-> 0, result |-> "none",
   error |-> "none"]

\* primary and fallback record what the two callOpenRouter rounds came to,
\* parsed the object the last round's content parsed to.
IdleWorker ==
  [pc |-> "idle", job |-> NoJob, settings |-> DEFAULT_SETTINGS, videos |-> <<>>,
   primary |-> Null, fallback |-> Null, parsed |-> NoParsed, category |-> Null,
   confidence |-> Null]

Ids(vs) == {vs[i].videoId : i \in 1..Len(vs)}

\* getSettings: the stored settings merged over the defaults.
getSettings == settings

\* The payload tracker.js builds for a qualifying watch (buildVideoPayload).
Payload(videoId, title, autoplay) ==
  [videoId |-> videoId, title |-> title, watchedAt |-> now, autoplay |-> autoplay,
   rewatchCount |-> 1, aiCategory |-> Null, aiCategoryConfidence |-> Null]

\* tracker.js: its constants and the state its module body sets up.
DEFAULT_THRESHOLDS ==
  [minWatchPercent |-> 40, minWatchTimeSeconds |-> 300, trackAutoplay |-> TRUE,
   countHiddenTime |-> FALSE, trackingEnabled |-> TRUE]

POLL_INTERVAL_MS == 1000

\* The content script once loadSettings has merged the worker's answer:
\* watchTimer and player say whether the variable holds a timer, an element;
\* withinWindow says whether performance.now() - videoStartTimestamp is at
\* most AUTOPLAY_WINDOW_MS; timers counts the intervals that are running,
\* attempts the waitForPlayer loops with a frame requested, and the two
\* listener flags say whether the element has such a listener of ours.
\* History, since the mediaId was armed: firstPlaying is "none" until the
\* element's first 'playing' event, then "autoplay" when that event came
\* within the window with no interaction captured and "gesture" otherwise;
\* sent is the autoplay flag of the payload sent, "none" before.
LoadedTracker(loaded) ==
  [settings |-> loaded, currentVideoId |-> Null, watchTimer |-> FALSE,
   player |-> FALSE, watchedSeconds |-> 0, hasRecorded |-> FALSE,
   autoplayDetected |-> FALSE, interactionCaptured |-> FALSE, withinWindow |-> TRUE,
   timers |-> 0, attempts |-> 0, playingListener |-> FALSE, endedListener |-> FALSE,
   firstPlaying |-> "none", sent |-> "none"]

\* The page before its media element exists.  video is "none", "loading"
\* (an element whose duration is not known yet) or "ready"; playback is
\* "paused", "playing" or "ended"; v is the v parameter of the page's URL.
NoPage ==
  [video |-> "none", playback |-> "paused", currentTime |-> 0, duration |-> 0,
   hidden |-> FALSE, v |-> Null]

\* The extension after installation, with the settings the user has saved.
ExtensionInit(savedSettings, builds, instant) ==
  /\ videos = <<>>
  /\ settings \in savedSettings
  /\ clock = instant
  /\ aiQueue = <<>>
  /\ queueProcessing = FALSE
  /\ worker = [w \in Workers |-> IdleWorker]
  /\ task = [t \in Tasks |-> IdleTask]
  /\ aiBuild \in builds
  /\ reportCache = NoReport
  /\ submitted = 0
  /\ answers = NoAnswers
  /\ popupTracking = TRUE
  /\ dashSettings = DEFAULT_SETTINGS
  /\ upserts = [m \in MediaIds |-> 0]
  /\ started = 0
  /\ pending = [m \in MediaIds |-> 0]

\* The state after installation, with no watch page open.
InitWith(savedSettings, builds, instant) ==
  /\ ExtensionInit(savedSettings, builds, instant)
  /\ tracker = LoadedTracker(DEFAULT_THRESHOLDS)
  /\ page = NoPage
  /\ emitted = 0


(***************************************************************************)
(* History: upserts[m] = k > 0 says that m was inserted by a saveVideo     *)
(* into a store that did not hold it and has been the subject of k         *)
(* saveVideo calls since, with no import of m and no removal in between.   *)
(***************************************************************************)
UpsertsAfterSave(newVideos, m) ==
  [x \in MediaIds |->
     IF x \notin Ids(newVideos) THEN 0
     ELSE IF x # m THEN upserts[x]
     ELSE IF m \notin Ids(videos) THEN 1
     ELSE IF upserts[m] > 0 THEN upserts[m] + 1 ELSE 0]

UpsertsAfterWrite(newVideos, touched) ==
  [x \in MediaIds |->
     IF x \notin Ids(newVideos) \/ x \in touched THEN 0 ELSE upserts[x]]

(***************************************************************************)
(* background/service-worker.js: the categorization queue.                 *)
(***************************************************************************)
\* Mutant of jobExists: a job that a worker slot holds counts as queued.
jobExistsOrInFlight(queue, videoId) ==
  \/ \E i \in 1..Len(queue) : queue[i].videoId = videoId
  \/ \E w \in Workers : worker[w].pc # "idle" /\ worker[w].job.videoId = videoId

jobExists(queue, videoId) == \E i \in 1..Len(queue) : queue[i].videoId = videoId

enqueueNoDedup(queue, video) ==
  Append(queue, [videoId |-> video.videoId, title |-> video.title])

\* queueCategorizationJob's push.
enqueue(queue, video) ==
  IF jobExists(queue, video.videoId) THEN queue
  ELSE Append(queue, [videoId |-> video.videoId, title |-> video.title])

processQueueSafelyUnguarded(queue, pend) ==
  IF queue = <<>>
  THEN /\ aiQueue' = queue
       /\ pending' = pend
       /\ UNCHANGED <<queueProcessing, worker>>
  ELSE \E w \in Workers :
         /\ pending' = [pend EXCEPT ![Head(queue).videoId] = 0]
         /\ worker[w].pc = "idle"
         /\ \A v \in Workers : worker[v].pc = "idle" => ~(v < w)
         /\ worker' = [worker EXCEPT ![w] = [IdleWorker EXCEPT
                         !.pc = "getSettings", !.job = Head(queue)]]
         /\ aiQueue' = Tail(queue)
         /\ queueProcessing' = TRUE

\* processQueueSafely up to its first await: the loop takes the oldest job
\* and processSingleJob starts reading the settings.
processQueueSafely(queue, pend) ==
  IF queueProcessing
  THEN /\ aiQueue' = queue
       /\ pending' = pend
       /\ UNCHANGED <<queueProcessing, worker>>
  ELSE IF queue = <<>>
  THEN /\ aiQueue' = queue
       /\ pending' = pend
       /\ UNCHANGED <<queueProcessing, worker>>
  ELSE \E w \in Workers :
         /\ pending' = [pend EXCEPT ![Head(queue).videoId] = 0]
         /\ worker[w].pc = "idle"
         /\ \A v \in Workers : worker[v].pc = "idle" => ~(v < w)
         /\ worker' = [worker EXCEPT ![w] = [IdleWorker EXCEPT
                         !.pc = "getSettings", !.job = Head(queue)]]
         /\ aiQueue' = Tail(queue)
         /\ queueProcessing' = TRUE

\* Mutant of queueCategorizationJob: the push without the call that starts
\* the loop.
queueCategorizationJobNoStart(video) ==
  /\ aiQueue' = enqueue(aiQueue, video)
  /\ pending' = [pending EXCEPT ![video.videoId] = @ + 1]
  /\ UNCHANGED <<queueProcessing, worker>>

queueCategorizationJob(video) ==
  processQueueSafely(enqueue(aiQueue, video),
                     [pending EXCEPT ![video.videoId] = @ + 1])

\* The handler has returned: what it was called with and what it answers are
\* kept, with the number of records its retention pass removed.
Done(tk, result) ==
  [IdleTask EXCEPT !.pc = "done", !.op = tk.op, !.result = result,
                   !.imported = tk.imported, !.pruned = tk.pruned,
                   !.calls = tk.calls, !.queued = tk.queued, !.error = tk.error,
                   !.videoId = IF tk.op = "VIDEO_WATCHED" THEN tk.video.videoId ELSE tk.videoId]

(***************************************************************************)
(* background/service-worker.js: handleVideoWatched, one action per await. *)
(***************************************************************************)
\* The code after applyRetentionPolicy: enqueue the job, or start updateVideo.
AfterRetention(t, tk) ==
  IF tk.settings.aiFeaturesEnabled /\ tk.settings.openRouterApiKey # ""
  THEN /\ queueCategorizationJob(tk.video)
       /\ task' = [task EXCEPT ![t] = Done(tk, "stored")]
  ELSE /\ task' = [task EXCEPT ![t] = [tk EXCEPT !.pc = "updateVideo_get", !.videos = <<>>]]
       /\ UNCHANGED queueVars

VideoWatched(t, video, maxRewatch) ==
  /\ task[t].pc = "idle"
  /\ started < MaxOps
  /\ started' = started + 1
  /\ \A i \in 1..Len(videos) :
       videos[i].videoId = video.videoId => videos[i].rewatchCount < maxRewatch
  /\ Len(aiQueue) < MaxQueue
  /\ task' = [task EXCEPT ![t] =
       IF video.videoId = Null
       THEN Done([IdleTask EXCEPT !.op = "VIDEO_WATCHED", !.video = video,
                                  !.error = "Missing video id"], "error")
       ELSE [IdleTask EXCEPT !.op = "VIDEO_WATCHED", !.video = video,
                             !.pc = "handleVideoWatched_getSettings"]]
  /\ UNCHANGED <<storeVars, queueVars, uiVars, upserts>>

HandleVideoWatchedAutoplayUnchecked(t) ==
  /\ task[t].pc = "handleVideoWatched_getSettings"
  /\ LET s == getSettings IN
     task' = [task EXCEPT ![t] =
       IF ~s.trackingEnabled THEN Done(@, "skipped")
       ELSE [@ EXCEPT !.settings = s, !.pc = "saveVideo_get"]]
  /\ UNCHANGED <<storeVars, queueVars, uiVars, upserts, started>>

HandleVideoWatchedGetSettings(t) ==
  /\ task[t].pc = "handleVideoWatched_getSettings"
  /\ LET s == getSettings IN
     task' = [task EXCEPT ![t] =
       IF ~s.trackingEnabled THEN Done(@, "skipped")
       ELSE IF @.video.autoplay /\ ~s.trackAutoplay THEN Done(@, "skipped")
       ELSE [@ EXCEPT !.settings = s, !.pc = "saveVideo_get"]]
  /\ UNCHANGED <<storeVars, queueVars, uiVars, upserts, started>>

SaveVideoGet(t) ==
  /\ task[t].pc = "saveVideo_get"
  /\ task' = [task EXCEPT ![t] =
       [@ EXCEPT !.videos = saveVideoMerge(videos, task[t].video), !.pc = "saveVideo_set"]]
  /\ UNCHANGED <<storeVars, queueVars, uiVars, upserts, started>>

\* saveVideo when the storage read throws: getVideos logs the error and
\* returns [], and saveVideo goes on with that array.
SaveVideoGetFailed(t) ==
  /\ task[t].pc = "saveVideo_get"
  /\ task' = [task EXCEPT ![t] =
       [@ EXCEPT !.videos = saveVideoMerge(<<>>, task[t].video),
                 !.error = "storage.getVideos failed", !.pc = "saveVideo_set"]]
  /\ UNCHANGED <<storeVars, queueVars, uiVars, upserts, started>>

SaveVideoSet(t) ==
  /\ task[t].pc = "saveVideo_set"
  /\ videos' = task[t].videos
  /\ upserts' = UpsertsAfterSave(task[t].videos, task[t].video.videoId)
  /\ LET days == daysToKeep(task[t].settings.dataRetention) IN
     IF task[t].settings.dataRetention = "all" \/ days = 0
     THEN AfterRetention(t, task[t])
     ELSE /\ task' = [task EXCEPT ![t] =
               [@ EXCEPT !.cutoff = now - days, !.videos = <<>>, !.pc = "retention_get"]]
          /\ UNCHANGED queueVars
  /\ UNCHANGED <<settings, clock, uiVars, started>>

RetentionGet(t) ==
  /\ task[t].pc = "retention_get"
  /\ LET filtered == retentionFilter(videos, task[t].cutoff) IN
     IF Len(filtered) # Len(videos)
     THEN /\ task' = [task EXCEPT ![t] =
               [@ EXCEPT !.videos = filtered, !.pc = "retention_set",
                         !.pruned = Len(videos) - Len(filtered)]]
          /\ UNCHANGED queueVars
     ELSE AfterRetention(t, task[t])
  /\ UNCHANGED <<storeVars, uiVars, upserts, started>>

RetentionSet(t) ==
  /\ task[t].pc = "retention_set"
  /\ videos' = task[t].videos
  /\ upserts' = UpsertsAfterWrite(task[t].videos, {})
  /\ AfterRetention(t, task[t])
  /\ UNCHANGED <<settings, clock, uiVars, started>>

UpdateVideoGet(t) ==
  /\ task[t].pc = "updateVideo_get"
  /\ task' = [task EXCEPT ![t] =
       IF findIndex(videos, @.video.videoId) = 0 THEN Done(@, "stored")
       ELSE [@ EXCEPT !.videos = updateVideoMerge(videos, task[t].video.videoId, "Uncategorized", "low"),
                      !.pc = "updateVideo_set"]]
  /\ UNCHANGED <<storeVars, queueVars, uiVars, upserts, started>>

UpdateVideoSet(t) ==
  /\ task[t].pc = "updateVideo_set"
  /\ videos' = task[t].videos
  /\ upserts' = UpsertsAfterWrite(task[t].videos, {})
  /\ task' = [task EXCEPT ![t] = Done(@, "stored")]
  /\ UNCHANGED <<settings, clock, queueVars, uiVars, started>>


(***************************************************************************)
(* background/service-worker.js: the worker loop (processQueueSafely,      *)
(* processSingleJob) and utils/ai.js categorizeVideoAi, one action per     *)
(* await.                                                                  *)
(***************************************************************************)
ProcessSingleJobUnchecked(w) ==
  /\ worker[w].pc = "getSettings"
  /\ worker' = [worker EXCEPT ![w] = [@ EXCEPT !.settings = getSettings, !.pc = "callPrimary"]]
  /\ UNCHANGED <<storeVars, aiQueue, queueProcessing, pending, task, uiVars, upserts, started>>

ProcessSingleJobGetSettings(w) ==
  /\ worker[w].pc = "getSettings"
  /\ LET s == getSettings IN
     worker' = [worker EXCEPT ![w] =
       IF ~s.aiFeaturesEnabled \/ s.openRouterApiKey = ""
       THEN [@ EXCEPT !.settings = s, !.category = "Uncategorized",
                      !.confidence = "low", !.pc = "updateVideo_get"]
       ELSE [@ EXCEPT !.settings = s, !.pc = "callPrimary"]]
  /\ UNCHANGED <<storeVars, aiQueue, queueProcessing, pending, task, uiVars, upserts, started>>

\* The primary model's round: a throw of callOpenRouter goes to the fallback
\* model; anything it returns is parsed outside the inner try.
CallPrimary(w, response) ==
  /\ worker[w].pc = "callPrimary"
  /\ worker' = [worker EXCEPT ![w] =
       IF response.kind = "throw"
       THEN [@ EXCEPT !.primary = response.kind, !.pc = "callFallback"]
       ELSE LET r == categorizeData(aiBuild, worker[w].job.title, response) IN
            [@ EXCEPT !.primary = response.kind, !.parsed = response.parsed,
                      !.category = r.category, !.confidence = r.confidence,
                      !.pc = "updateVideo_get"]]
  /\ UNCHANGED <<storeVars, aiQueue, queueProcessing, pending, task, uiVars, upserts, started>>

CallFallback(w, response) ==
  /\ worker[w].pc = "callFallback"
  /\ worker' = [worker EXCEPT ![w] =
       LET r == IF response.kind = "throw"
                THEN categorizeFailed(aiBuild, worker[w].job.title)
                ELSE categorizeData(aiBuild, worker[w].job.title, response) IN
       [@ EXCEPT !.fallback = response.kind, !.parsed = response.parsed,
                 !.category = r.category, !.confidence = r.confidence,
                 !.pc = "updateVideo_get"]]
  /\ UNCHANGED <<storeVars, aiQueue, queueProcessing, pending, task, uiVars, upserts, started>>

WorkerUpdateVideoGet(w) ==
  /\ worker[w].pc = "updateVideo_get"
  /\ worker' = [worker EXCEPT ![w] =
       IF findIndex(videos, @.job.videoId) = 0 THEN [@ EXCEPT !.pc = "delay"]
       ELSE [@ EXCEPT !.videos = updateVideoMerge(videos, worker[w].job.videoId, worker[w].category, worker[w].confidence),
                      !.pc = "updateVideo_set"]]
  /\ UNCHANGED <<storeVars, aiQueue, queueProcessing, pending, task, uiVars, upserts, started>>

WorkerUpdateVideoSetThenShift(w) ==
  /\ worker[w].pc = "updateVideo_set"
  /\ videos' = worker[w].videos
  /\ upserts' = UpsertsAfterWrite(worker[w].videos, {})
  /\ IF aiQueue # <<>>
     THEN /\ worker' = [worker EXCEPT ![w] = [IdleWorker EXCEPT
                          !.pc = "getSettings", !.job = Head(aiQueue)]]
          /\ aiQueue' = Tail(aiQueue)
          /\ pending' = [pending EXCEPT ![Head(aiQueue).videoId] = 0]
     ELSE /\ worker' = [worker EXCEPT ![w] = [@ EXCEPT !.videos = <<>>, !.pc = "delay"]]
          /\ UNCHANGED <<aiQueue, pending>>
  /\ UNCHANGED <<settings, clock, queueProcessing, task, uiVars, started>>

WorkerUpdateVideoSet(w) ==
  /\ worker[w].pc = "updateVideo_set"
  /\ videos' = worker[w].videos
  /\ upserts' = UpsertsAfterWrite(worker[w].videos, {})
  /\ worker' = [worker EXCEPT ![w] = [@ EXCEPT !.videos = <<>>, !.pc = "delay"]]
  /\ UNCHANGED <<settings, clock, aiQueue, queueProcessing, pending, task, uiVars, started>>

WorkerDelayTakesLast(w) ==
  /\ worker[w].pc = "delay"
  /\ IF aiQueue # <<>>
     THEN /\ worker' = [worker EXCEPT ![w] = [IdleWorker EXCEPT
                          !.pc = "getSettings", !.job = aiQueue[Len(aiQueue)]]]
          /\ aiQueue' = SubSeq(aiQueue, 1, Len(aiQueue) - 1)
          /\ pending' = [pending EXCEPT ![aiQueue[Len(aiQueue)].videoId] = 0]
          /\ UNCHANGED queueProcessing
     ELSE /\ worker' = [worker EXCEPT ![w] = IdleWorker]
          /\ queueProcessing' = FALSE
          /\ UNCHANGED <<aiQueue, pending>>
  /\ UNCHANGED <<storeVars, task, uiVars, upserts, started>>

\* delay(AI_RATE_LIMIT_MS) elapses and the while condition is evaluated.
WorkerDelay(w) ==
  /\ worker[w].pc = "delay"
  /\ IF aiQueue # <<>>
     THEN /\ worker' = [worker EXCEPT ![w] = [IdleWorker EXCEPT
                          !.pc = "getSettings", !.job = Head(aiQueue)]]
          /\ aiQueue' = Tail(aiQueue)
          /\ pending' = [pending EXCEPT ![Head(aiQueue).videoId] = 0]
          /\ UNCHANGED queueProcessing
     ELSE /\ worker' = [worker EXCEPT ![w] = IdleWorker]
          /\ queueProcessing' = FALSE
          /\ UNCHANGED <<aiQueue, pending>>
  /\ UNCHANGED <<storeVars, task, uiVars, upserts, started>>

(***************************************************************************)
(* dashboard/dashboard.js: delete, import and clear, through storage.js.   *)
(***************************************************************************)
DeleteVideoEntry(t, videoId) ==
  /\ task[t].pc = "idle"
  /\ started < MaxOps
  /\ started' = started + 1
  /\ task' = [task EXCEPT ![t] =
       [IdleTask EXCEPT !.op = "deleteVideo", !.videoId = videoId, !.pc = "deleteVideo_get"]]
  /\ UNCHANGED <<storeVars, queueVars, uiVars, upserts>>

DeleteVideoGet(t) ==
  /\ task[t].pc = "deleteVideo_get"
  /\ task' = [task EXCEPT ![t] =
       [@ EXCEPT !.videos = deleteVideoFilter(videos, task[t].videoId), !.pc = "deleteVideo_set"]]
  /\ UNCHANGED <<storeVars, queueVars, uiVars, upserts, started>>

\* deleteVideo when the storage read throws.
DeleteVideoGetFailed(t) ==
  /\ task[t].pc = "deleteVideo_get"
  /\ task' = [task EXCEPT ![t] =
       [@ EXCEPT !.videos = deleteVideoFilter(<<>>, task[t].videoId),
                 !.error = "storage.getVideos failed", !.pc = "deleteVideo_set"]]
  /\ UNCHANGED <<storeVars, queueVars, uiVars, upserts, started>>

DeleteVideoSet(t) ==
  /\ task[t].pc = "deleteVideo_set"
  /\ videos' = task[t].videos
  /\ upserts' = UpsertsAfterWrite(task[t].videos, {})
  /\ task' = [task EXCEPT ![t] = Done(@, "deleted")]
  /\ UNCHANGED <<settings, clock, queueVars, uiVars, started>>

\* handleImport: importHistory; the loadInitialData that follows writes
\* nothing but the settings it has just read, value for value.
HandleImport(t, importedVideos) ==
  /\ task[t].pc = "idle"
  /\ started < MaxOps
  /\ started' = started + 1
  /\ task' = [task EXCEPT ![t] =
       [IdleTask EXCEPT !.op = "importHistory", !.imported = importedVideos,
                        !.pc = "importHistory_get"]]
  /\ UNCHANGED <<storeVars, queueVars, uiVars, upserts>>

\* importHistory with what JSON.parse returned: parsed.isArray is
\* Array.isArray's answer, parsed.items the records it holds.  A payload
\* that is no array is refused before the store is read.
ImportHistoryUnchecked(t, parsed) == HandleImport(t, parsed.items)

ImportHistory(t, parsed) ==
  IF parsed.isArray
  THEN HandleImport(t, parsed.items)
  ELSE /\ task[t].pc = "idle"
       /\ started < MaxOps
       /\ started' = started + 1
       /\ task' = [task EXCEPT ![t] =
            Done([IdleTask EXCEPT !.op = "importHistory", !.imported = parsed.items,
                                  !.error = "Imported data must be an array"], "error")]
       /\ UNCHANGED <<storeVars, queueVars, uiVars, upserts>>

ImportHistoryGet(t) ==
  /\ task[t].pc = "importHistory_get"
  /\ task' = [task EXCEPT ![t] =
       [@ EXCEPT !.videos = importHistoryMerge(videos, task[t].imported), !.pc = "importHistory_set"]]
  /\ UNCHANGED <<storeVars, queueVars, uiVars, upserts, started>>

\* importHistory when the storage read throws.
ImportHistoryGetFailed(t) ==
  /\ task[t].pc = "importHistory_get"
  /\ task' = [task EXCEPT ![t] =
       [@ EXCEPT !.videos = importHistoryMerge(<<>>, task[t].imported),
                 !.error = "storage.getVideos failed", !.pc = "importHistory_set"]]
  /\ UNCHANGED <<storeVars, queueVars, uiVars, upserts, started>>

ImportHistorySet(t) ==
  /\ task[t].pc = "importHistory_set"
  /\ videos' = task[t].videos
  /\ upserts' = UpsertsAfterWrite(task[t].videos, Ids(task[t].imported))
  /\ task' = [task EXCEPT ![t] = Done(@, "imported")]
  /\ UNCHANGED <<settings, clock, queueVars, uiVars, started>>

\* handleClearData: replaceHistory([]) is a single storage write.
HandleClearData(t) ==
  /\ task[t].pc = "idle"
  /\ started < MaxOps
  /\ started' = started + 1
  /\ task' = [task EXCEPT ![t] = [IdleTask EXCEPT !.op = "clearData", !.pc = "replaceHistory_set"]]
  /\ UNCHANGED <<storeVars, queueVars, uiVars, upserts>>

ReplaceHistorySet(t) ==
  /\ task[t].pc = "replaceHistory_set"
  /\ videos' = <<>>
  /\ upserts' = UpsertsAfterWrite(<<>>, {})
  /\ task' = [task EXCEPT ![t] = Done(@, "cleared")]
  /\ UNCHANGED <<settings, clock, queueVars, uiVars, started>>

(***************************************************************************)
(* background/service-worker.js: handleWeeklyReport and CLEAR_DATA, with   *)
(* utils/ai.js generateWeeklyReportAi, one action per await.               *)
(***************************************************************************)
\* RECENT_WINDOW_MS, in days.
RECENT_WINDOW == 7

recentUnfiltered(history, instant) == history

\* handleWeeklyReport's filter of the history.
recentFilter(history, instant) ==
  SelectSeq(history, LAMBDA video : instant - video.watchedAt <= RECENT_WINDOW)

GenerateWeeklyReport(t) ==
  /\ task[t].pc = "idle"
  /\ started < MaxOps
  /\ started' = started + 1
  /\ task' = [task EXCEPT ![t] =
       [IdleTask EXCEPT !.op = "GENERATE_WEEKLY_REPORT", !.pc = "report_getSettings"]]
  /\ UNCHANGED <<storeVars, queueVars, uiVars, upserts>>

\* Mutant of WeeklyReportGetSettings: the report is generated whatever the
\* settings say.
WeeklyReportGetSettingsUnchecked(t) ==
  /\ task[t].pc = "report_getSettings"
  /\ task' = [task EXCEPT ![t] = [@ EXCEPT !.settings = getSettings, !.pc = "report_getHistory"]]
  /\ UNCHANGED <<storeVars, queueVars, uiVars, upserts, started>>

WeeklyReportGetSettings(t) ==
  /\ task[t].pc = "report_getSettings"
  /\ LET s == getSettings IN
     task' = [task EXCEPT ![t] =
       IF ~s.aiFeaturesEnabled \/ s.openRouterApiKey = ""
       THEN Done([@ EXCEPT !.error = "AI disabled or API key missing"], "error")
       ELSE [@ EXCEPT !.settings = s, !.pc = "report_getHistory"]]
  /\ UNCHANGED <<storeVars, queueVars, uiVars, upserts, started>>

\* getHistory, the filter and buildWeeklySummary; generateWeeklyReportAi runs
\* up to its first callOpenRouter.
WeeklyReportGetHistory(t) ==
  /\ task[t].pc = "report_getHistory"
  /\ LET recent == recentFilter(videos, now) IN
     task' = [task EXCEPT ![t] =
       IF recent = <<>>
       THEN Done([@ EXCEPT !.error = "No watch history in the past 7 days"], "error")
       ELSE [@ EXCEPT !.videos = recent, !.calls = 1, !.pc = "report_callPrimary"]]
  /\ UNCHANGED <<storeVars, queueVars, uiVars, upserts, started>>

\* The primary model's round: a throw starts the fallback model's round,
\* data without content is an error, content is the report.
ReportCallPrimary(t, response) ==
  /\ task[t].pc = "report_callPrimary"
  /\ task' = [task EXCEPT ![t] =
       IF response.kind = "throw"
       THEN [@ EXCEPT !.calls = @ + 1, !.pc = "report_callFallback"]
       ELSE IF response.kind = "nocontent"
       THEN Done([@ EXCEPT !.error = "OpenRouter weekly report missing content"], "error")
       ELSE [@ EXCEPT !.pc = "saveReport"]]
  /\ UNCHANGED <<storeVars, queueVars, uiVars, upserts, started>>

ReportCallFallback(t, response) ==
  /\ task[t].pc = "report_callFallback"
  /\ task' = [task EXCEPT ![t] =
       IF response.kind = "throw"
       THEN Done([@ EXCEPT !.error = "OpenRouter error"], "error")
       ELSE IF response.kind = "nocontent"
       THEN Done([@ EXCEPT !.error = "OpenRouter weekly report missing content"], "error")
       ELSE [@ EXCEPT !.pc = "saveReport"]]
  /\ UNCHANGED <<storeVars, queueVars, uiVars, upserts, started>>

SaveReport(t) ==
  /\ task[t].pc = "saveReport"
  /\ reportCache' = [content |-> "report", generatedAt |-> now]
  /\ task' = [task EXCEPT ![t] = Done(@, "report")]
  /\ UNCHANGED <<storeVars, queueVars, aiBuild, submitted, answers, popupTracking, dashSettings,
                 detVars, upserts, started>>

\* handleMessage CLEAR_DATA: clearAll removes the videos and the report
\* cache in one storage call, then replaceHistory([]) writes the videos.
ClearData(t) ==
  /\ task[t].pc = "idle"
  /\ started < MaxOps
  /\ started' = started + 1
  /\ task' = [task EXCEPT ![t] = [IdleTask EXCEPT !.op = "CLEAR_DATA", !.pc = "clearAll"]]
  /\ UNCHANGED <<storeVars, queueVars, uiVars, upserts>>

ClearAllVideosOnly(t) ==
  /\ task[t].pc = "clearAll"
  /\ videos' = <<>>
  /\ upserts' = UpsertsAfterWrite(<<>>, {})
  /\ task' = [task EXCEPT ![t] = [@ EXCEPT !.pc = "replaceHistory_set"]]
  /\ UNCHANGED <<settings, clock, queueVars, uiVars, started>>

ClearAll(t) ==
  /\ task[t].pc = "clearAll"
  /\ videos' = <<>>
  /\ reportCache' = NoReport
  /\ upserts' = UpsertsAfterWrite(<<>>, {})
  /\ task' = [task EXCEPT ![t] = [@ EXCEPT !.pc = "replaceHistory_set"]]
  /\ UNCHANGED <<settings, clock, queueVars, aiBuild, submitted, answers, popupTracking,
                 dashSettings, detVars, started>>

(***************************************************************************)
(* background/service-worker.js: the other commands of handleMessage and   *)
(* the onMessage listener's answer.                                        *)
(***************************************************************************)
\* GET_SETTINGS and GET_REPORT_CACHE: one storage read each.
GetSettingsMessage(t) ==
  /\ task[t].pc = "idle"
  /\ started < MaxOps
  /\ started' = started + 1
  /\ task' = [task EXCEPT ![t] = [IdleTask EXCEPT !.op = "GET_SETTINGS", !.pc = "getSettings"]]
  /\ UNCHANGED <<storeVars, queueVars, uiVars, upserts>>

GetReportCacheMessage(t) ==
  /\ task[t].pc = "idle"
  /\ started < MaxOps
  /\ started' = started + 1
  /\ task' = [task EXCEPT ![t] =
       [IdleTask EXCEPT !.op = "GET_REPORT_CACHE", !.pc = "getCachedReport"]]
  /\ UNCHANGED <<storeVars, queueVars, uiVars, upserts>>

StorageRead(t) ==
  /\ task[t].pc \in {"getSettings", "getCachedReport"}
  /\ task' = [task EXCEPT ![t] =
       Done(@, IF task[t].pc = "getSettings" THEN "settings" ELSE "report")]
  /\ UNCHANGED <<storeVars, queueVars, uiVars, upserts, started>>

\* A message whose type is none of MESSAGE_TYPES, or no message at all:
\* handleMessage throws.
UnknownMessage(t) ==
  /\ task[t].pc = "idle"
  /\ started < MaxOps
  /\ started' = started + 1
  /\ task' = [task EXCEPT ![t] =
       Done([IdleTask EXCEPT !.op = "unknown", !.error = "Unknown message type"], "error")]
  /\ UNCHANGED <<storeVars, queueVars, uiVars, upserts>>

\* TEST_API_KEY: testOpenRouterKey catches whatever callOpenRouter throws,
\* the missing key included, and answers false.
TestApiKey(t, apiKey) ==
  /\ task[t].pc = "idle"
  /\ started < MaxOps
  /\ started' = started + 1
  /\ task' = [task EXCEPT ![t] =
       IF apiKey = ""
       THEN Done([IdleTask EXCEPT !.op = "TEST_API_KEY"], "false")
       ELSE [IdleTask EXCEPT !.op = "TEST_API_KEY", !.calls = 1, !.pc = "testKey_call"]]
  /\ UNCHANGED <<storeVars, queueVars, uiVars, upserts>>

TestKeyCall(t, response) ==
  /\ task[t].pc = "testKey_call"
  /\ task' = [task EXCEPT ![t] =
       Done(@, IF response.kind = "content" THEN "true" ELSE "false")]
  /\ UNCHANGED <<storeVars, queueVars, uiVars, upserts, started>>

\* CATEGORIZE_PENDING: enqueuePendingVideos.
CategorizePending(t) ==
  /\ task[t].pc = "idle"
  /\ started < MaxOps
  /\ started' = started + 1
  /\ task' = [task EXCEPT ![t] =
       [IdleTask EXCEPT !.op = "CATEGORIZE_PENDING", !.pc = "pending_getHistory"]]
  /\ UNCHANGED <<storeVars, queueVars, uiVars, upserts>>

RECURSIVE enqueueEach(_, _)
enqueueEach(queue, history) ==
  IF history = <<>> THEN queue
  ELSE enqueueEach(enqueue(queue, Head(history)), Tail(history))

RECURSIVE pendingEach(_, _)
pendingEach(pend, history) ==
  IF history = <<>> THEN pend
  ELSE pendingEach([pend EXCEPT ![Head(history).videoId] = @ + 1], Tail(history))

EnqueuePendingUnfiltered(t) ==
  /\ task[t].pc = "pending_getHistory"
  /\ IF videos = <<>>
     THEN UNCHANGED queueVars
     ELSE IF queueProcessing
     THEN /\ aiQueue' = enqueueEach(aiQueue, videos)
          /\ pending' = pendingEach(pending, videos)
          /\ UNCHANGED <<queueProcessing, worker>>
     ELSE LET first == enqueue(aiQueue, Head(videos))
              counted == [pending EXCEPT ![Head(videos).videoId] = @ + 1]
          IN
          \E w \in Workers :
            /\ worker[w].pc = "idle"
            /\ \A v \in Workers : worker[v].pc = "idle" => ~(v < w)
            /\ worker' = [worker EXCEPT ![w] = [IdleWorker EXCEPT
                            !.pc = "getSettings", !.job = Head(first)]]
            /\ queueProcessing' = TRUE
            /\ aiQueue' = enqueueEach(Tail(first), Tail(videos))
            /\ pending' = pendingEach([counted EXCEPT ![Head(first).videoId] = 0],
                                      Tail(videos))
  /\ task' = [task EXCEPT ![t] = Done([@ EXCEPT !.queued = Len(aiQueue')], "queued")]
  /\ UNCHANGED <<storeVars, uiVars, upserts, started>>

\* getHistory, then queueCategorizationJob for each record without a
\* category: the first call finds no loop running and starts it (the loop
\* takes the oldest job before the next record is enqueued).  The handler
\* returns { queued: aiQueue.length }.
EnqueuePendingGetHistory(t) ==
  /\ task[t].pc = "pending_getHistory"
  /\ LET history == SelectSeq(videos, LAMBDA video :
                      video.aiCategory = Null \/ video.aiCategory = "Uncategorized")
     IN
     IF history = <<>>
     THEN UNCHANGED queueVars
     ELSE IF queueProcessing
     THEN /\ aiQueue' = enqueueEach(aiQueue, history)
          /\ pending' = pendingEach(pending, history)
          /\ UNCHANGED <<queueProcessing, worker>>
     ELSE LET first == enqueue(aiQueue, Head(history))
              counted == [pending EXCEPT ![Head(history).videoId] = @ + 1]
          IN
          \E w \in Workers :
            /\ worker[w].pc = "idle"
            /\ \A v \in Workers : worker[v].pc = "idle" => ~(v < w)
            /\ worker' = [worker EXCEPT ![w] = [IdleWorker EXCEPT
                            !.pc = "getSettings", !.job = Head(first)]]
            /\ queueProcessing' = TRUE
            /\ aiQueue' = enqueueEach(Tail(first), Tail(history))
            /\ pending' = pendingEach([counted EXCEPT ![Head(first).videoId] = 0],
                                      Tail(history))
  /\ task' = [task EXCEPT ![t] = Done([@ EXCEPT !.queued = Len(aiQueue')], "queued")]
  /\ UNCHANGED <<storeVars, uiVars, upserts, started>>

sendResponseUncaught(tk) ==
  [success |-> TRUE, data |-> IF tk.result = "error" THEN tk.error ELSE tk.result]

\* The listener's then and catch: what sendResponse is called with once
\* handleMessage's promise is settled.
sendResponse(tk) ==
  IF tk.result = "error"
  THEN [success |-> FALSE, error |-> tk.error]
  ELSE [success |-> TRUE, data |-> tk.result]

\* The listener answers the message of handler t.
SendResponse(t) ==
  /\ task[t].pc = "done"
  /\ task' = [task EXCEPT ![t] = IdleTask]
  /\ answers' = [sent |-> answers.sent + 1, type |-> task[t].op,
                 answer |-> sendResponse(task[t])]
  /\ UNCHANGED <<storeVars, queueVars, aiBuild, reportCache, submitted, popupTracking,
                 dashSettings, detVars, upserts, started>>

\* The handler's promise is settled and its caller resumes: the slot is free
\* for the next handler (what a message's sender is answered is
\* SendResponse's subject).
Finish(t) ==
  /\ task[t].pc = "done"
  /\ task' = [task EXCEPT ![t] = IdleTask]
  /\ UNCHANGED <<storeVars, queueVars, uiVars, upserts, started>>

\* Time passes, to one of the given instants.
Advance(instants) ==
  /\ clock' \in instants
  /\ clock' > clock
  /\ UNCHANGED <<videos, settings, queueVars, task, uiVars, upserts, started>>


(***************************************************************************)
(* utils/storage.js saveSettings, popup/popup.js and the settings form of  *)
(* dashboard/dashboard.js.                                                 *)
(***************************************************************************)
\* { ...DEFAULT_SETTINGS, ...newSettings }: newSettings may hold any subset
\* of the keys.
saveSettingsMerged(newSettings) ==
  [k \in DOMAIN DEFAULT_SETTINGS |->
     IF k \in DOMAIN newSettings THEN newSettings[k] ELSE DEFAULT_SETTINGS[k]]

\* popup.js loadSettings: at popup start and on every settings change.
PopupLoadSettings ==
  /\ popupTracking # getSettings.trackingEnabled
  /\ popupTracking' = getSettings.trackingEnabled
  /\ UNCHANGED <<storeVars, queueVars, task, aiBuild, reportCache, submitted, answers, dashSettings, upserts, started, detVars>>

\* popup.js: the trackingToggle click handler.
TrackingToggleClick ==
  /\ popupTracking' = ~popupTracking
  /\ settings' = saveSettingsMerged([trackingEnabled |-> ~popupTracking])
  /\ UNCHANGED <<videos, clock, queueVars, task, aiBuild, reportCache, submitted, answers, dashSettings, upserts, started, detVars>>

FORM_DEFAULTS ==
  [minWatchPercent |-> 40, minWatchTimeSeconds |-> 300, trackAutoplay |-> TRUE,
   countHiddenTime |-> TRUE, dataRetention |-> "all", aiFeaturesEnabled |-> TRUE,
   openRouterApiKey |-> "", trackingEnabled |-> TRUE]

\* A number that is not finite (Number("") of a bad field is NaN).
NaN == -1

clampNumberToDefault(value, min, max, fallback) ==
  IF value # NaN /\ value >= min /\ value <= max THEN value ELSE 40

clampNumber(value, min, max, fallback) ==
  IF value # NaN /\ value >= min /\ value <= max THEN value ELSE fallback

ensureSecondsAnyNumber(value, fallback) ==
  IF value # NaN THEN value ELSE fallback

ensureSeconds(value, fallback) ==
  IF value # NaN /\ value >= 60 THEN value ELSE fallback

\* A flag as the form or the store delivers it: "true" is the boolean true
\* or the string 'true', "false" likewise; "on" and "null" are what a
\* checkbox delivers.
parseBoolean(value, fallback) ==
  IF value = "true" THEN TRUE
  ELSE IF value = "false" THEN FALSE
  ELSE fallback

AsFlag(b) == IF b THEN "true" ELSE "false"

\* A settings record as an input of sanitizeSettings.
AsInput(s) ==
  [minWatchPercent |-> s.minWatchPercent, minWatchTimeSeconds |-> s.minWatchTimeSeconds,
   trackAutoplay |-> AsFlag(s.trackAutoplay), countHiddenTime |-> AsFlag(s.countHiddenTime),
   dataRetention |-> s.dataRetention, aiFeaturesEnabled |-> AsFlag(s.aiFeaturesEnabled),
   openRouterApiKey |-> s.openRouterApiKey, trackingEnabled |-> AsFlag(s.trackingEnabled)]

sanitizeSettings(input, base) ==
  LET fallback ==
        [minWatchPercent |-> clampNumber(base.minWatchPercent, 10, 80, FORM_DEFAULTS.minWatchPercent),
         minWatchTimeSeconds |-> ensureSeconds(base.minWatchTimeSeconds, FORM_DEFAULTS.minWatchTimeSeconds),
         trackAutoplay |-> base.trackAutoplay,
         countHiddenTime |-> base.countHiddenTime,
         dataRetention |-> IF base.dataRetention \in RetentionOptions
                           THEN base.dataRetention ELSE FORM_DEFAULTS.dataRetention,
         aiFeaturesEnabled |-> base.aiFeaturesEnabled,
         openRouterApiKey |-> base.openRouterApiKey,
         trackingEnabled |-> base.trackingEnabled]
  IN
  [minWatchPercent |-> clampNumber(input.minWatchPercent, 10, 80, fallback.minWatchPercent),
   minWatchTimeSeconds |-> ensureSeconds(input.minWatchTimeSeconds, fallback.minWatchTimeSeconds),
   trackAutoplay |-> parseBoolean(input.trackAutoplay, fallback.trackAutoplay),
   countHiddenTime |-> parseBoolean(input.countHiddenTime, fallback.countHiddenTime),
   dataRetention |-> IF input.dataRetention \in RetentionOptions
                     THEN input.dataRetention ELSE fallback.dataRetention,
   aiFeaturesEnabled |-> parseBoolean(input.aiFeaturesEnabled, fallback.aiFeaturesEnabled),
   openRouterApiKey |-> IF input.openRouterApiKey # Null
                        THEN input.openRouterApiKey ELSE fallback.openRouterApiKey,
   trackingEnabled |-> parseBoolean(input.trackingEnabled, fallback.trackingEnabled)]

\* refreshSettingsFromStorage: on every settings change.
RefreshSettingsFromStorage ==
  /\ dashSettings # sanitizeSettings(AsInput(getSettings), FORM_DEFAULTS)
  /\ dashSettings' = sanitizeSettings(AsInput(getSettings), FORM_DEFAULTS)
  /\ UNCHANGED <<storeVars, queueVars, task, aiBuild, reportCache, submitted, answers, popupTracking, upserts, started, detVars>>

\* loadInitialData, when the dashboard opens: the stored settings are
\* sanitized and saved back when sanitizing changed them.
LoadInitialData ==
  LET sanitizedSettings == sanitizeSettings(AsInput(getSettings), FORM_DEFAULTS) IN
  /\ settings' = IF sanitizedSettings # getSettings
                 THEN saveSettingsMerged(sanitizedSettings) ELSE settings
  /\ dashSettings' = sanitizedSettings
  /\ UNCHANGED <<videos, clock, queueVars, task, aiBuild, reportCache, submitted, answers,
                 popupTracking, upserts, started, detVars>>

\* handleSettingsSubmit: form holds the fields' values, minutes as a number.
HandleSettingsSubmit(form) ==
  LET rawSettings ==
        [minWatchPercent |-> form.settingWatchPercent,
         minWatchTimeSeconds |-> IF form.settingWatchMinutes # NaN
                                 THEN form.settingWatchMinutes * 60 ELSE NaN,
         trackAutoplay |-> form.settingTrackAutoplay,
         countHiddenTime |-> form.settingHiddenTime,
         dataRetention |-> form.settingRetention,
         aiFeaturesEnabled |-> form.settingAiEnabled,
         openRouterApiKey |-> form.settingApiKey,
         trackingEnabled |-> AsFlag(dashSettings.trackingEnabled)]
      sanitized == sanitizeSettings(rawSettings, dashSettings)
  IN
  /\ settings' = saveSettingsMerged(sanitized)
  /\ dashSettings' = sanitized
  /\ submitted' = form.settingWatchPercent
  /\ UNCHANGED <<videos, clock, queueVars, task, aiBuild, reportCache, answers,
                 popupTracking, upserts, started, detVars>>


(***************************************************************************)
(* content/tracker.js: the watch detector.                                 *)
(***************************************************************************)
\* Math.min(100, (currentTime / duration) * 100) >= threshold, for a
\* duration above 0, without the division.
percentReached(currentTime, duration, threshold) ==
  IF currentTime * 100 >= 100 * duration THEN 100 >= threshold
  ELSE currentTime * 100 >= threshold * duration

watchedEnoughBoth(currentTime, duration, watchedSeconds, thresholds) ==
  /\ percentReached(currentTime, duration, thresholds.minWatchPercent)
  /\ watchedSeconds >= thresholds.minWatchTimeSeconds

watchedEnough(currentTime, duration, watchedSeconds, thresholds) ==
  \/ percentReached(currentTime, duration, thresholds.minWatchPercent)
  \/ watchedSeconds >= thresholds.minWatchTimeSeconds

\* player.duration: NaN until the element knows it.
playerDuration(pg) == IF pg.video = "ready" THEN pg.duration ELSE 0

shouldSendUngated(tr, pg) ==
  /\ tr.player
  /\ tr.settings.trackingEnabled
  /\ playerDuration(pg) # 0
  /\ watchedEnough(pg.currentTime, playerDuration(pg), tr.watchedSeconds, tr.settings)

\* evaluateAndSend up to its last return: whether it goes on to send.
shouldSend(tr, pg) ==
  /\ ~tr.hasRecorded
  /\ tr.player
  /\ tr.settings.trackingEnabled
  /\ playerDuration(pg) # 0
  /\ watchedEnough(pg.currentTime, playerDuration(pg), tr.watchedSeconds, tr.settings)

evaluateAndSend(tr, pg) ==
  IF shouldSend(tr, pg)
  THEN [tr EXCEPT !.hasRecorded = TRUE,
                  !.sent = IF tr.autoplayDetected THEN "true" ELSE "false"]
  ELSE tr

resetTracking(tr) ==
  [tr EXCEPT !.timers = IF tr.watchTimer THEN @ - 1 ELSE @,
             !.watchTimer = FALSE, !.watchedSeconds = 0, !.hasRecorded = FALSE,
             !.autoplayDetected = FALSE, !.withinWindow = TRUE,
             !.firstPlaying = "none", !.sent = "none"]

setupPlayerListeners(tr) ==
  IF ~tr.player THEN tr
  ELSE [tr EXCEPT !.playingListener = TRUE, !.endedListener = TRUE,
                  !.timers = @ + 1, !.watchTimer = TRUE]

\* evaluateAutoplay, the listener of the element's 'playing' event.
evaluateAutoplay(tr) ==
  IF tr.interactionCaptured THEN tr
  ELSE IF tr.withinWindow THEN [tr EXCEPT !.autoplayDetected = TRUE]
  ELSE tr

\* One run of waitForPlayer's attempt: it sets up the listeners or requests
\* another frame.
attempt(tr, pg) ==
  LET found == [tr EXCEPT !.player = (pg.video # "none")] IN
  IF found.player /\ playerDuration(pg) # 0 THEN setupPlayerListeners(found)
  ELSE [found EXCEPT !.attempts = @ + 1]

\* detectVideo, called at start and by the observer of URL changes, with the
\* v parameter of the URL.
DetectVideo(videoId) ==
  /\ page' = [page EXCEPT !.v = videoId]
  /\ IF videoId = Null
     THEN /\ tracker' = resetTracking(tracker)
          /\ emitted' = 0
     ELSE IF videoId = tracker.currentVideoId
     THEN UNCHANGED <<tracker, emitted>>
     ELSE /\ tracker' = attempt(resetTracking([tracker EXCEPT !.currentVideoId = videoId]), page)
          /\ emitted' = 0
  /\ tracker'.timers <= MaxTimers
  /\ tracker'.attempts <= MaxAttempts
  /\ UNCHANGED <<storeVars, queueVars, task, aiBuild, reportCache, submitted, answers, popupTracking, dashSettings,
                 upserts, started>>

\* A requested animation frame runs attempt.
Attempt ==
  /\ tracker.attempts > 0
  /\ tracker' = attempt([tracker EXCEPT !.attempts = @ - 1], page)
  /\ tracker'.timers <= MaxTimers
  /\ UNCHANGED <<storeVars, queueVars, task, aiBuild, reportCache, submitted, answers, popupTracking, dashSettings,
                 upserts, started, page, emitted>>

PollCountsHidden(maxWatched) ==
  /\ tracker.timers > 0
  /\ tracker.watchedSeconds < maxWatched
  /\ IF ~tracker.player \/ page.playback # "playing" \/ playerDuration(page) = 0
     THEN UNCHANGED <<tracker, emitted>>
     ELSE LET counted == [tracker EXCEPT !.watchedSeconds = @ + POLL_INTERVAL_MS \div 1000] IN
          /\ tracker' = evaluateAndSend(counted, page)
          /\ emitted' = IF shouldSend(counted, page) THEN emitted + 1 ELSE emitted
  /\ UNCHANGED <<storeVars, queueVars, task, aiBuild, reportCache, submitted, answers, popupTracking, dashSettings,
                 upserts, started, page>>

\* trackWatchTime: one of the running intervals fires.
Poll(maxWatched) ==
  /\ tracker.timers > 0
  /\ tracker.watchedSeconds < maxWatched
  /\ IF ~tracker.player \/ page.playback # "playing" \/ playerDuration(page) = 0
     THEN UNCHANGED <<tracker, emitted>>
     ELSE IF ~tracker.settings.countHiddenTime /\ page.hidden
     THEN UNCHANGED <<tracker, emitted>>
     ELSE LET counted == [tracker EXCEPT !.watchedSeconds = @ + POLL_INTERVAL_MS \div 1000] IN
          /\ tracker' = evaluateAndSend(counted, page)
          /\ emitted' = IF shouldSend(counted, page) THEN emitted + 1 ELSE emitted
  /\ UNCHANGED <<storeVars, queueVars, task, aiBuild, reportCache, submitted, answers, popupTracking, dashSettings,
                 upserts, started, page>>

\* The media plays to its end: the element's 'ended' event and our listener.
Ended ==
  /\ page.video = "ready"
  /\ page.playback = "playing"
  /\ page' = [page EXCEPT !.playback = "ended", !.currentTime = page.duration]
  /\ IF tracker.endedListener /\ ~tracker.hasRecorded
     THEN /\ tracker' = evaluateAndSend(tracker, page')
          /\ emitted' = IF shouldSend(tracker, page') THEN emitted + 1 ELSE emitted
     ELSE UNCHANGED <<tracker, emitted>>
  /\ UNCHANGED <<storeVars, queueVars, task, aiBuild, reportCache, submitted, answers, popupTracking, dashSettings,
                 upserts, started>>

(***************************************************************************)
(* The watch page: what the browser and the user do to the media element.  *)
(***************************************************************************)
pageFrame ==
  <<storeVars, queueVars, task, aiBuild, reportCache, submitted, answers, popupTracking, dashSettings, upserts,
    started, tracker, emitted>>

\* The page gets a media element, or its element a new source.
LoadMedia ==
  /\ page' = [page EXCEPT !.video = "loading", !.playback = "paused",
                          !.currentTime = 0, !.duration = 0]
  /\ page' # page
  /\ UNCHANGED pageFrame

MetadataLoaded(duration) ==
  /\ page.video = "loading"
  /\ page' = [page EXCEPT !.video = "ready", !.duration = duration]
  /\ UNCHANGED pageFrame

\* Playback starts: the element's 'playing' event and our once-listener.
Play ==
  /\ page.video = "ready"
  /\ page.playback = "paused"
  /\ page' = [page EXCEPT !.playback = "playing"]
  /\ LET heard == [tracker EXCEPT !.firstPlaying =
                     IF @ # "none" THEN @
                     ELSE IF ~tracker.interactionCaptured /\ tracker.withinWindow
                     THEN "autoplay" ELSE "gesture"]
     IN tracker' = IF tracker.playingListener
                   THEN evaluateAutoplay([heard EXCEPT !.playingListener = FALSE])
                   ELSE heard
  /\ UNCHANGED <<storeVars, queueVars, task, aiBuild, reportCache, submitted, answers, popupTracking, dashSettings,
                 upserts, started, emitted>>

Pause ==
  /\ page.playback = "playing"
  /\ page' = [page EXCEPT !.playback = "paused"]
  /\ UNCHANGED pageFrame

\* Playback or a seek moves the position; leaving the end clears 'ended'.
Seek(position) ==
  /\ page.video = "ready"
  /\ position < page.duration
  /\ position # page.currentTime
  /\ page' = [page EXCEPT !.currentTime = position,
                          !.playback = IF @ = "ended" THEN "paused" ELSE @]
  /\ UNCHANGED pageFrame

VisibilityChange ==
  /\ page' = [page EXCEPT !.hidden = ~@]
  /\ UNCHANGED pageFrame

\* A pointerdown or keydown reaches the window: markInteracted.
Interaction ==
  /\ ~tracker.interactionCaptured
  /\ tracker' = [tracker EXCEPT !.interactionCaptured = TRUE]
  /\ UNCHANGED <<storeVars, queueVars, task, aiBuild, reportCache, submitted, answers, popupTracking, dashSettings,
                 upserts, started, page, emitted>>

\* More than AUTOPLAY_WINDOW_MS have passed since videoStartTimestamp.
AutoplayWindowElapses ==
  /\ tracker.withinWindow
  /\ tracker' = [tracker EXCEPT !.withinWindow = FALSE]
  /\ UNCHANGED <<storeVars, queueVars, task, aiBuild, reportCache, submitted, answers, popupTracking, dashSettings,
                 upserts, started, page, emitted>>

(***************************************************************************)
(* Inputs.                                                                 *)
(***************************************************************************)
Form(percent, minutes, autoplay, hidden, retention, ai, key) ==
  [settingWatchPercent |-> percent, settingWatchMinutes |-> minutes,
   settingTrackAutoplay |-> autoplay, settingHiddenTime |-> hidden,
   settingRetention |-> retention, settingAiEnabled |-> ai, settingApiKey |-> key]

ImportRecord(videoId, title, watchedAt, rewatchCount, category, confidence) ==
  [videoId |-> videoId, title |-> title, watchedAt |-> watchedAt,
   rewatchCount |-> rewatchCount, aiCategory |-> category,
   aiCategoryConfidence |-> confidence]

\* Sequences of at most n elements of S.
SeqUpTo(S, n) == UNION {[1..k -> S] : k \in 0..n}

\* The steps of the handlers in flight.
WatchedStep(t) ==
  \/ HandleVideoWatchedGetSettings(t)
  \/ SaveVideoGet(t)
  \/ SaveVideoSet(t)
  \/ Finish(t)

UpdateStep(t) ==
  \/ UpdateVideoGet(t)
  \/ UpdateVideoSet(t)

RetentionStep(t) ==
  \/ RetentionGet(t)
  \/ RetentionSet(t)

RemovalStep(t) ==
  \/ DeleteVideoGet(t)
  \/ DeleteVideoSet(t)
  \/ ReplaceHistorySet(t)

ImportStep(t) ==
  \/ ImportHistoryGet(t)
  \/ ImportHistorySet(t)

ReportStep(t, responses) ==
  \/ WeeklyReportGetSettings(t)
  \/ WeeklyReportGetHistory(t)
  \/ \E response \in responses : ReportCallPrimary(t, response)
  \/ \E response \in responses : ReportCallFallback(t, response)
  \/ SaveReport(t)

StoreStep(t) ==
  \/ UpdateStep(t)
  \/ RetentionStep(t)
  \/ RemovalStep(t)
  \/ ImportStep(t)

WorkerStep(w, responses) ==
  \/ ProcessSingleJobGetSettings(w)
  \/ \E response \in responses : CallPrimary(w, response)
  \/ \E response \in responses : CallFallback(w, response)
  \/ WorkerUpdateVideoGet(w)
  \/ WorkerUpdateVideoSet(w)
  \/ WorkerDelay(w)

(***************************************************************************)
(* Spec: the history store under overlapping handlers.  No API key is      *)
(* saved, so handleVideoWatched writes the category itself (updateVideo).  *)
(***************************************************************************)
StoreEvents ==
  {Payload("a", "gaming stream", FALSE), Payload("b", "plain talk", FALSE),
   Payload("b", "plain talk", TRUE), Payload(Null, "plain talk", FALSE)}

StoreSettings ==
  {DEFAULT_SETTINGS,
   [DEFAULT_SETTINGS EXCEPT !.dataRetention = "3m", !.trackAutoplay = FALSE]}

\* One import file, with two records of the same mediaId.
StoreImports ==
  {<<ImportRecord("a", "gaming stream", 0, 2, "Music", "high"),
     ImportRecord("a", "plain talk", 0, 1, Null, Null)>>}

Next ==
  \/ \E t \in Tasks, video \in StoreEvents : VideoWatched(t, video, ConcRewatch)
  \/ \E t \in Tasks, videoId \in MediaIds : DeleteVideoEntry(t, videoId)
  \/ \E t \in Tasks, imported \in StoreImports : HandleImport(t, imported)
  \/ \E t \in Tasks : HandleClearData(t)
  \/ \E t \in Tasks : WatchedStep(t)
  \/ \E t \in Tasks : StoreStep(t)

Init == InitWith(StoreSettings, {"plain"}, 3)

Spec == Init /\ [][Next]_vars

(***************************************************************************)
(* SpecQueue: the categorization queue and its worker, with an API key     *)
(* saved, under overlapping watch events.                                  *)
(***************************************************************************)
QueueEvents ==
  {Payload("a", "gaming stream", FALSE), Payload("b", "plain talk", FALSE)}

QueueSettings == {[DEFAULT_SETTINGS EXCEPT !.openRouterApiKey = "sk-1"]}

QueueResponses ==
  {[kind |-> "throw", parsed |-> NoParsed],
   [kind |-> "json", parsed |-> [category |-> "Music", confidence |-> "high"]]}

NextQueue ==
  \/ \E t \in Tasks, video \in QueueEvents : VideoWatched(t, video, MaxRewatch)
  \/ \E t \in Tasks : WatchedStep(t)
  \/ \E w \in Workers : WorkerStep(w, QueueResponses)

InitQueue == InitWith(QueueSettings, {"heuristic", "plain"}, 3)

SpecQueue == InitQueue /\ [][NextQueue]_vars

(***************************************************************************)
(* SpecSeq: watch events, deletions and clears one after the other (none   *)
(* starts before the previous one has returned), with time passing         *)
(* between them.                                                           *)
(***************************************************************************)
SeqTask == "t1"

Quiet == \A t \in Tasks : task[t].pc = "idle"

SeqEvents ==
  {Payload("a", "gaming stream", FALSE), Payload("a", "plain talk", FALSE),
   Payload("b", "plain talk", FALSE)}

SeqSettings == {[DEFAULT_SETTINGS EXCEPT !.dataRetention = r] : r \in RetentionOptions}

NextSeq ==
  \/ \E video \in SeqEvents : VideoWatched(SeqTask, video, MaxRewatch)
  \/ \E videoId \in MediaIds : DeleteVideoEntry(SeqTask, videoId)
  \/ HandleClearData(SeqTask)
  \/ WatchedStep(SeqTask)
  \/ UpdateStep(SeqTask)
  \/ RetentionStep(SeqTask)
  \/ RemovalStep(SeqTask)
  \/ Quiet /\ Advance(1..Len(ClockValues))

InitSeq == InitWith(SeqSettings, {"plain"}, 1)

SpecSeq == InitSeq /\ [][NextSeq]_vars

(***************************************************************************)
(* SpecImport: imports and watch events one after the other.               *)
(***************************************************************************)
\* Records of an import file; a rewatchCount of 0 is a missing one.
ImportRecords ==
  {ImportRecord("a", "plain talk", 0, 3, "Music", "high"),
   ImportRecord("a", "gaming stream", 90, 5, Null, Null),
   ImportRecord("b", "plain talk", 0, 0, Null, Null),
   ImportRecord(Null, "plain talk", 0, 3, Null, Null)}

ImportFiles == SeqUpTo(ImportRecords, MaxImports)

ImportEvents ==
  {Payload("a", "plain talk", FALSE), Payload("b", "plain talk", FALSE)}

NextImport ==
  \/ \E imported \in ImportFiles : HandleImport(SeqTask, imported)
  \/ \E video \in ImportEvents : VideoWatched(SeqTask, video, MaxRewatch)
  \/ WatchedStep(SeqTask)
  \/ UpdateStep(SeqTask)
  \/ ImportStep(SeqTask)

InitImport == InitWith({DEFAULT_SETTINGS}, {"plain"}, 3)

SpecImport == InitImport /\ [][NextImport]_vars

(***************************************************************************)
(* SpecSettings: the popup's toggle and the dashboard's settings form.     *)
(***************************************************************************)
Forms ==
  {Form(percent, minutes, autoplay, "null", retention, "on", key) :
     percent \in {NaN, 25, 90, 200}, minutes \in {NaN, 2}, autoplay \in {"on", "null"},
     retention \in {"6m", "never"}, key \in {"", "sk-1"}}

NextSettings ==
  \/ TrackingToggleClick
  \/ PopupLoadSettings
  \/ \E form \in Forms : HandleSettingsSubmit(form)
  \/ RefreshSettingsFromStorage

InitSettings == InitWith({DEFAULT_SETTINGS}, {"plain"}, 1)

SpecSettings == InitSettings /\ [][NextSettings]_vars

(***************************************************************************)
(* SpecReport: weekly reports, imports, CLEAR_DATA and the dashboard's     *)
(* 'clear data' one after the other, with time passing between them.       *)
(***************************************************************************)
ReportSettings ==
  {DEFAULT_SETTINGS,
   [DEFAULT_SETTINGS EXCEPT !.openRouterApiKey = "sk-1"],
   [DEFAULT_SETTINGS EXCEPT !.openRouterApiKey = "sk-1", !.aiFeaturesEnabled = FALSE]}

\* Import files of one record: watched 7 days, 8 days and 100 days before
\* the first instant of the specification, and 82 days after it.
ReportFiles ==
  {<<ImportRecord("a", "plain talk", 93, 1, Null, Null)>>,
   <<ImportRecord("b", "plain talk", 92, 1, Null, Null)>>,
   <<ImportRecord("a", "gaming stream", 0, 1, Null, Null)>>,
   <<ImportRecord("b", "gaming stream", 182, 1, Null, Null)>>}

\* What a callOpenRouter round for the report can come to.
ReportResponses ==
  {[kind |-> "throw", parsed |-> NoParsed],
   [kind |-> "nocontent", parsed |-> NoParsed],
   [kind |-> "content", parsed |-> NoParsed]}

NextReport ==
  \/ \E imported \in ReportFiles : HandleImport(SeqTask, imported)
  \/ GenerateWeeklyReport(SeqTask)
  \/ ClearData(SeqTask)
  \/ HandleClearData(SeqTask)
  \/ ImportStep(SeqTask)
  \/ ReportStep(SeqTask, ReportResponses)
  \/ ClearAll(SeqTask)
  \/ ReplaceHistorySet(SeqTask)
  \/ Finish(SeqTask)
  \/ Quiet /\ Advance(1..Len(ClockValues))

InitReport == InitWith(ReportSettings, {"plain"}, 3)

SpecReport == InitReport /\ [][NextReport]_vars

(***************************************************************************)
(* SpecGate: watch events that handleVideoWatched refuses, among events it *)
(* stores, one after the other while the queue's worker runs, with an API  *)
(* key saved and the popup's toggle switching the tracking off and on.     *)
(***************************************************************************)
GateEvents ==
  {Payload("a", "plain talk", FALSE), Payload("b", "plain talk", TRUE),
   Payload(Null, "plain talk", FALSE)}

GateSettings ==
  {[DEFAULT_SETTINGS EXCEPT !.openRouterApiKey = "sk-1"],
   [DEFAULT_SETTINGS EXCEPT !.openRouterApiKey = "sk-1", !.trackAutoplay = FALSE],
   [DEFAULT_SETTINGS EXCEPT !.openRouterApiKey = "sk-1", !.trackingEnabled = FALSE]}

NextGate ==
  \/ \E video \in GateEvents : VideoWatched(SeqTask, video, MaxRewatch)
  \/ WatchedStep(SeqTask)
  \/ UpdateStep(SeqTask)
  \/ \E w \in Workers : WorkerStep(w, QueueResponses)
  \/ TrackingToggleClick
  \/ PopupLoadSettings

InitGate == InitWith(GateSettings, {"plain"}, 3)

SpecGate == InitGate /\ [][NextGate]_vars

(***************************************************************************)
(* SpecMessage: the commands of the message listener, overlapping, each    *)
(* answered by the listener, while the queue's worker runs.                *)
(***************************************************************************)
MessageEvents == {Payload("a", "plain talk", FALSE), Payload(Null, "plain talk", FALSE)}

MessageSettings == {DEFAULT_SETTINGS, [DEFAULT_SETTINGS EXCEPT !.openRouterApiKey = "sk-1"]}

MessageKeys == {"", "sk-1"}

\* The categorization calls of the queue's worker all fail here, so that its
\* records stay without a category for CATEGORIZE_PENDING to find.
MessageJobResponses == {[kind |-> "throw", parsed |-> NoParsed]}

OnMessage(t) ==
  \/ \E video \in MessageEvents : VideoWatched(t, video, ConcRewatch)
  \/ GetSettingsMessage(t)
  \/ GenerateWeeklyReport(t)
  \/ GetReportCacheMessage(t)
  \/ \E apiKey \in MessageKeys : TestApiKey(t, apiKey)
  \/ CategorizePending(t)
  \/ ClearData(t)
  \/ UnknownMessage(t)

MessageStep(t) ==
  \/ HandleVideoWatchedGetSettings(t)
  \/ SaveVideoGet(t)
  \/ SaveVideoSet(t)
  \/ UpdateStep(t)
  \/ ReportStep(t, ReportResponses)
  \/ StorageRead(t)
  \/ \E response \in ReportResponses : TestKeyCall(t, response)
  \/ EnqueuePendingGetHistory(t)
  \/ ClearAll(t)
  \/ ReplaceHistorySet(t)

NextMessage ==
  \/ \E t \in Tasks : OnMessage(t)
  \/ \E t \in Tasks : MessageStep(t)
  \/ \E t \in Tasks : SendResponse(t)
  \/ \E w \in Workers : WorkerStep(w, MessageJobResponses)

InitMessage == InitWith(MessageSettings, {"plain"}, 3)

SpecMessage == InitMessage /\ [][NextMessage]_vars

(***************************************************************************)
(* SpecClassify: the queue's worker with every kind of classifier          *)
(* response, under watch events handled one after the other.               *)
(***************************************************************************)
\* A call throws (network failure, non-2xx status), or returns data: without
\* content, with content that is no JSON, with JSON that lacks the category,
\* or with the JSON asked for.
ClassifyResponses ==
  {[kind |-> "throw", parsed |-> NoParsed],
   [kind |-> "nocontent", parsed |-> NoParsed],
   [kind |-> "badjson", parsed |-> NoParsed],
   [kind |-> "json", parsed |-> [category |-> Null, confidence |-> "high"]],
   [kind |-> "json", parsed |-> [category |-> "Music", confidence |-> "high"]]}

NextClassify ==
  \/ \E video \in QueueEvents : VideoWatched(SeqTask, video, MaxRewatch)
  \/ WatchedStep(SeqTask)
  \/ \E w \in Workers : WorkerStep(w, ClassifyResponses)

InitClassify == InitWith(QueueSettings, {"heuristic", "plain"}, 3)

SpecClassify == InitClassify /\ [][NextClassify]_vars

\* The worker's steps that the extension's own scheduling completes: storage
\* callbacks and the delay timer.  callOpenRouter awaits fetch with no timer
\* of its own, so a response is the network's to give.
WorkerLocalStep(w) ==
  \/ ProcessSingleJobGetSettings(w)
  \/ WorkerUpdateVideoGet(w)
  \/ WorkerUpdateVideoSet(w)
  \/ WorkerDelay(w)

FairClassify ==
  /\ WF_vars(WatchedStep(SeqTask))
  /\ \A w \in Workers : WF_vars(WorkerLocalStep(w))

SpecClassifyLive == InitClassify /\ [][NextClassify]_vars /\ FairClassify

\* Every classifier call returns or fails, and the steps of the handler and
\* of the worker are taken.
FairAnswered ==
  /\ WF_vars(WatchedStep(SeqTask))
  /\ \A w \in Workers : WF_vars(WorkerStep(w, ClassifyResponses))

SpecClassifyAnswered == InitClassify /\ [][NextClassify]_vars /\ FairAnswered

(***************************************************************************)
(* SpecWriteBack: the worker's write-back while the dashboard deletes      *)
(* entries; watch events and deletions come one after the other, the       *)
(* worker's steps interleave with theirs.                                  *)
(***************************************************************************)
NextWriteBack ==
  \/ \E video \in QueueEvents : VideoWatched(SeqTask, video, MaxRewatch)
  \/ \E videoId \in MediaIds : DeleteVideoEntry(SeqTask, videoId)
  \/ WatchedStep(SeqTask)
  \/ DeleteVideoGet(SeqTask)
  \/ DeleteVideoSet(SeqTask)
  \/ \E w \in Workers : WorkerStep(w, QueueResponses)

InitWriteBack == InitWith(QueueSettings, {"plain"}, 3)

SpecWriteBack == InitWriteBack /\ [][NextWriteBack]_vars

(***************************************************************************)
(* SpecSanitize: the popup's toggle, the dashboard's load and its settings *)
(* form, over a settings record that an earlier version or the browser's   *)
(* tools left in storage with values out of range.                         *)
(***************************************************************************)
SanitizeStored ==
  {[DEFAULT_SETTINGS EXCEPT !.minWatchPercent = 200, !.minWatchTimeSeconds = 5,
                            !.dataRetention = "never"],
   [DEFAULT_SETTINGS EXCEPT !.minWatchPercent = 5, !.minWatchTimeSeconds = 0,
                            !.dataRetention = "2y", !.trackAutoplay = FALSE]}

SanitizeForms ==
  {Form(percent, minutes, autoplay, "null", retention, "on", "sk-1") :
     percent \in {NaN, 9, 80, 81}, minutes \in {NaN, 0, 1}, autoplay \in {"on", "false"},
     retention \in {"3m", "never"}}

NextSanitize ==
  \/ LoadInitialData
  \/ TrackingToggleClick
  \/ PopupLoadSettings
  \/ \E form \in SanitizeForms : HandleSettingsSubmit(form)
  \/ RefreshSettingsFromStorage

InitSanitize == InitWith(SanitizeStored, {"plain"}, 1)

SpecSanitize == InitSanitize /\ [][NextSanitize]_vars

(***************************************************************************)
(* SpecPayload: imports of any parsed JSON value, and watch events, one    *)
(* after the other.                                                        *)
(***************************************************************************)
\* Arrays of records, an object that is one record, and a value (null, a
\* number, a string) that holds none.
ImportPayloads ==
  {[isArray |-> TRUE, items |-> imported] : imported \in ImportFiles}
    \cup {[isArray |-> FALSE, items |-> <<ImportRecord("b", "plain talk", 0, 3, "Music", "high")>>],
          [isArray |-> FALSE, items |-> <<>>]}

NextPayload ==
  \/ \E parsed \in ImportPayloads : ImportHistory(SeqTask, parsed)
  \/ \E video \in ImportEvents : VideoWatched(SeqTask, video, MaxRewatch)
  \/ WatchedStep(SeqTask)
  \/ UpdateStep(SeqTask)
  \/ ImportStep(SeqTask)

InitPayload == InitWith({DEFAULT_SETTINGS}, {"plain"}, 3)

SpecPayload == InitPayload /\ [][NextPayload]_vars

(***************************************************************************)
(* SpecPending: CATEGORIZE_PENDING after watch events whose jobs the       *)
(* classifier answers or fails, the messages one after the other.          *)
(***************************************************************************)
NextPending ==
  \/ \E video \in QueueEvents : VideoWatched(SeqTask, video, MaxRewatch)
  \/ CategorizePending(SeqTask)
  \/ WatchedStep(SeqTask)
  \/ EnqueuePendingGetHistory(SeqTask)
  \/ \E w \in Workers : WorkerStep(w, QueueResponses)

InitPending == InitWith(QueueSettings, {"heuristic", "plain"}, 3)

SpecPending == InitPending /\ [][NextPending]_vars

(***************************************************************************)
(* SpecLabels: a classifier that answers with a label of its own, and      *)
(* import files whose records carry one; watch events and imports one      *)
(* after the other.                                                        *)
(***************************************************************************)
LabelResponses ==
  {[kind |-> "throw", parsed |-> NoParsed],
   [kind |-> "json", parsed |-> [category |-> "Music", confidence |-> "high"]],
   [kind |-> "json", parsed |-> [category |-> "Vlogs", confidence |-> "high"]]}

LabelFiles ==
  {<<ImportRecord("a", "plain talk", 0, 1, "Music", "high")>>,
   <<ImportRecord("b", "plain talk", 0, 1, "Vlogs", "high")>>}

NextLabels ==
  \/ \E video \in QueueEvents : VideoWatched(SeqTask, video, MaxRewatch)
  \/ \E imported \in LabelFiles : HandleImport(SeqTask, imported)
  \/ WatchedStep(SeqTask)
  \/ ImportStep(SeqTask)
  \/ \E w \in Workers : WorkerStep(w, LabelResponses)

InitLabels == InitWith(QueueSettings, {"heuristic", "plain"}, 3)

SpecLabels == InitLabels /\ [][NextLabels]_vars

(***************************************************************************)
(* SpecReadFailure: watch events, deletions and imports one after the      *)
(* other, on a store whose reads can fail.                                 *)
(***************************************************************************)
NextReadFailure ==
  \/ \E video \in ImportEvents : VideoWatched(SeqTask, video, MaxRewatch)
  \/ \E videoId \in MediaIds : DeleteVideoEntry(SeqTask, videoId)
  \/ \E imported \in ImportFiles : HandleImport(SeqTask, imported)
  \/ WatchedStep(SeqTask)
  \/ UpdateStep(SeqTask)
  \/ DeleteVideoGet(SeqTask)
  \/ DeleteVideoSet(SeqTask)
  \/ ImportStep(SeqTask)
  \/ SaveVideoGetFailed(SeqTask)
  \/ DeleteVideoGetFailed(SeqTask)
  \/ ImportHistoryGetFailed(SeqTask)

InitReadFailure == InitWith({DEFAULT_SETTINGS}, {"plain"}, 3)

SpecReadFailure == InitReadFailure /\ [][NextReadFailure]_vars

(***************************************************************************)
(* SpecRewatch: imports of categorized records and watch events one after  *)
(* the other, with AI off and with AI on (the worker's steps interleaved). *)
(***************************************************************************)
\* Import files of one record that carries a category.
RewatchFiles ==
  {<<ImportRecord("a", "plain talk", 0, 1, "Music", "high")>>,
   <<ImportRecord("b", "plain talk", 0, 2, "Gaming", "medium")>>}

NextRewatch ==
  \/ \E imported \in RewatchFiles : HandleImport(SeqTask, imported)
  \/ \E video \in ImportEvents : VideoWatched(SeqTask, video, MaxRewatch)
  \/ WatchedStep(SeqTask)
  \/ UpdateStep(SeqTask)
  \/ ImportStep(SeqTask)
  \/ \E w \in Workers : WorkerStep(w, QueueResponses)

InitRewatch == InitWith({DEFAULT_SETTINGS} \cup QueueSettings, {"plain"}, 3)

SpecRewatch == InitRewatch /\ [][NextRewatch]_vars

(***************************************************************************)
(* SpecReimport: watch events and imports one after the other, where the   *)
(* file imported can be the store's own export, and where an import that   *)
(* has returned can be repeated with the same file.                        *)
(***************************************************************************)
\* exportJson and handleImport: the file is JSON.stringify of the stored
\* array and the import reads it with JSON.parse.  Strings, integers and
\* null come back as they were, and a field that is missing stays missing.
exportJson(vs) ==
  [i \in 1..Len(vs) |->
     ImportRecord(vs[i].videoId, vs[i].title, vs[i].watchedAt, vs[i].rewatchCount,
                  vs[i].aiCategory, vs[i].aiCategoryConfidence)]

\* The user exports the history and imports the file just written.
ImportExported(t) ==
  /\ videos # <<>>
  /\ HandleImport(t, exportJson(videos))

\* The other dashboard task imports again the file whose import has just
\* returned.
ImportAgain(t, again) ==
  /\ task[t].pc = "done"
  /\ task[t].op = "importHistory"
  /\ task[t].result = "imported"
  /\ HandleImport(again, task[t].imported)

NextReimport ==
  \/ \E imported \in ImportFiles : Quiet /\ HandleImport(SeqTask, imported)
  \/ \E video \in ImportEvents : Quiet /\ VideoWatched(SeqTask, video, MaxRewatch)
  \/ Quiet /\ ImportExported(SeqTask)
  \/ \E again \in Tasks \ {SeqTask} : ImportAgain(SeqTask, again)
  \/ WatchedStep(SeqTask)
  \/ UpdateStep(SeqTask)
  \/ \E t \in Tasks : ImportStep(t)
  \/ \E again \in Tasks \ {SeqTask} : Finish(again)

InitReimport == InitWith({DEFAULT_SETTINGS}, {"plain"}, 3)

SpecReimport == InitReimport /\ [][NextReimport]_vars

(***************************************************************************)
(* SpecDetector: the watch detector on a page whose URL and media element  *)
(* change freely.                                                          *)
(***************************************************************************)
DetectorSettings ==
  {[DEFAULT_THRESHOLDS EXCEPT !.minWatchTimeSeconds = 60],
   [DEFAULT_THRESHOLDS EXCEPT !.minWatchTimeSeconds = 60, !.countHiddenTime = TRUE,
                              !.trackingEnabled = FALSE]}

Durations == {600}
Positions == {0, 300}

PageStep ==
  \/ LoadMedia
  \/ \E duration \in Durations : MetadataLoaded(duration)
  \/ Play
  \/ Pause
  \/ \E position \in Positions : Seek(position)
  \/ VisibilityChange

NextDetector ==
  \/ \E videoId \in MediaIds \cup {Null} : DetectVideo(videoId)
  \/ Attempt
  \/ Poll(MaxWatched)
  \/ Ended
  \/ PageStep

InitDetector ==
  /\ ExtensionInit({DEFAULT_SETTINGS}, {"plain"}, 1)
  /\ tracker \in {LoadedTracker(loaded) : loaded \in DetectorSettings}
  /\ page = NoPage
  /\ emitted = 0

SpecDetector == InitDetector /\ [][NextDetector]_vars

(***************************************************************************)
(* SpecAutoplay: the detector with the user's interactions and the         *)
(* autoplay window, on a page whose URL and media element change freely.   *)
(***************************************************************************)
NextAutoplay ==
  \/ \E videoId \in MediaIds \cup {Null} : DetectVideo(videoId)
  \/ Attempt
  \/ Poll(MaxPolled)
  \/ Ended
  \/ PageStep
  \/ Interaction
  \/ AutoplayWindowElapses

SpecAutoplay == InitDetector /\ [][NextAutoplay]_vars

(***************************************************************************)
(* SpecQualify: evaluateAndSend on samples drawn from a range of positions,*)
(* durations, watched times and thresholds, the detector sampling.         *)
(***************************************************************************)
QualifyPercents == {10, 40, 80}
QualifySeconds == {60, 300}
QualifyDurations == {600, 3000}
QualifyPositions == {0, 60, 239, 240, 245, 300}
QualifyWatched == {0, 238, 298}

SamplingTracker(loaded, watchedSeconds) ==
  [LoadedTracker(loaded) EXCEPT
     !.currentVideoId = "a", !.player = TRUE, !.watchTimer = TRUE, !.timers = 1,
     !.playingListener = TRUE, !.endedListener = TRUE,
     !.watchedSeconds = watchedSeconds]

InitQualify ==
  /\ ExtensionInit({DEFAULT_SETTINGS}, {"plain"}, 1)
  /\ tracker \in {SamplingTracker([DEFAULT_THRESHOLDS EXCEPT !.minWatchPercent = percent,
                                                            !.minWatchTimeSeconds = seconds],
                                  watchedSeconds) :
                    percent \in QualifyPercents, seconds \in QualifySeconds,
                    watchedSeconds \in QualifyWatched}
  /\ page \in {[NoPage EXCEPT !.video = "ready", !.playback = "playing", !.v = "a",
                              !.currentTime = position, !.duration = duration] :
                 position \in QualifyPositions, duration \in QualifyDurations}
  /\ emitted = 0

NextQualify == Poll(MaxSampled)

SpecQualify == InitQualify /\ [][NextQualify]_vars

C2_QualifiesExactlyWhen ==
  [][(tracker'.watchedSeconds = tracker.watchedSeconds + 1 /\ ~tracker.hasRecorded)
       => LET position == page.currentTime
              duration == page.duration
              watched == tracker'.watchedSeconds
              percent == tracker.settings.minWatchPercent
              seconds == tracker.settings.minWatchTimeSeconds
              capped == IF position >= duration THEN 100 * duration ELSE 100 * position
              sends == (emitted' = emitted + 1)
          IN /\ sends <=> (capped >= percent * duration \/ watched >= seconds)
             /\ (duration = 600 /\ percent = 40 /\ seconds = 300)
                  => /\ position = 245 => sends
                     /\ (position = 239 /\ watched = 239) => ~sends
                     /\ (position = 60 /\ watched = 300) => sends]_vars

\* The event has been sent by the sample that brought watchedSeconds to 300,
\* at 10% progress, under the default thresholds.
C2_TimeBranchWitness ==
  /\ emitted = 1
  /\ tracker.watchedSeconds = 300
  /\ page.currentTime * 10 = page.duration
  /\ tracker.settings.minWatchPercent = 40
  /\ tracker.settings.minWatchTimeSeconds = 300

(***************************************************************************)
(* Properties of the history store under overlapping handlers (Spec).      *)
(***************************************************************************)
\* C4: in every reachable state, after any sequence and any interleaving of
\* upsert, update, delete, import merge, retention pruning and bulk clear,
\* the persisted videos collection holds at most one record per mediaId.
C4_OneRecordPerMediaId ==
  \A i, j \in 1..Len(videos) : videos[i].videoId = videos[j].videoId => i = j

\* Two ids are stored and one of them has been upserted at least twice.
C4_RewatchMergedWitness ==
  /\ Len(videos) = 2
  /\ \E m \in MediaIds : upserts[m] >= 2

\* C5: a record that an upsert has persisted disappears only through an
\* explicit delete, a bulk clear or retention pruning: no write of an upsert,
\* of a classification write-back (update) or of an import removes it,
\* however the reads and writes of overlapping handlers interleave.
C5_DisappearsOnlyByRemoval ==
  [][\A m \in MediaIds :
       (m \in Ids(videos) /\ upserts[m] > 0 /\ m \notin Ids(videos'))
         => \E t \in Tasks :
              /\ task[t].pc \in {"deleteVideo_set", "replaceHistory_set", "retention_set"}
              /\ task'[t].pc # task[t].pc]_vars

(***************************************************************************)
(* Properties of the handlers run one after the other (SpecSeq,            *)
(* SpecImport).                                                            *)
(***************************************************************************)
RecordsOf(vs, m) == {i \in 1..Len(vs) : vs[i].videoId = m}

\* C3: after the k-th of k >= 1 sequential upserts of a mediaId into a store
\* that did not contain it, the store holds exactly one record for that
\* mediaId, its rewatchCount equals k, and its title and watchedAt are those
\* of this last upsert.
C3_SequentialUpserts ==
  [][\A t \in Tasks :
       (task[t].pc = "saveVideo_set" /\ task'[t].pc # "saveVideo_set")
         => LET m == task[t].video.videoId IN
            upserts'[m] >= 1 =>
              /\ Cardinality(RecordsOf(videos', m)) = 1
              /\ \A i \in RecordsOf(videos', m) :
                   /\ videos'[i].rewatchCount = upserts'[m]
                   /\ videos'[i].title = task[t].video.title
                   /\ videos'[i].watchedAt = task[t].video.watchedAt]_vars

\* A mediaId has been upserted three times in a row and its count is 3.
C3_ThirdUpsertWitness ==
  \E i \in 1..Len(videos) :
    upserts[videos[i].videoId] = 3 /\ videos[i].rewatchCount = 3

\* The windows as the documentation states them, in days.
StatedWindow(dataRetention) ==
  CASE dataRetention = "3m" -> 90
    [] dataRetention = "6m" -> 182
    [] dataRetention = "1y" -> 365
    [] OTHER -> 0

\* C7: applyRetention with dataRetention in {3m, 6m, 1y} removes exactly the
\* records whose watchedAt is older than now minus 90/182/365 days and keeps
\* all others; with 'all' it does not even read the collection; it writes
\* the collection only when at least one record was removed.
C7_RetentionRemovesOlderOnly ==
  [][\A t \in Tasks :
       LET cutoff == now - StatedWindow(task[t].settings.dataRetention) IN
       /\ (task[t].pc = "retention_set" /\ task'[t].pc # "retention_set")
            => /\ Len(videos') < Len(videos)
               /\ videos' = SelectSeq(videos, LAMBDA video : ~(video.watchedAt < cutoff))
       /\ (task[t].pc = "retention_get" /\ task'[t].pc \notin {"retention_get", "retention_set"})
            => \A i \in 1..Len(videos) : ~(videos[i].watchedAt < cutoff)
       /\ (task[t].pc = "retention_get" /\ task'[t].pc = "retention_set")
            => \E i \in 1..Len(videos) : videos[i].watchedAt < cutoff
       /\ task'[t].pc \in {"retention_get", "retention_set"}
            => task'[t].settings.dataRetention \in {"3m", "6m", "1y"}]_vars

\* A retention pass has removed one record and kept another.
C7_PrunedOneKeptOneWitness ==
  \E t \in Tasks :
    /\ task[t].pc = "updateVideo_get"
    /\ task[t].pruned = 1
    /\ Len(videos) = 1

SetMax(S) == CHOOSE x \in S : \A y \in S : x >= y

\* C8: an import of records whose mediaId already exists yields one record
\* for that mediaId whose rewatchCount is the maximum of the existing and
\* the incoming counts, never their sum.
C8_ImportKeepsMax ==
  [][\A t \in Tasks :
       (task[t].pc = "importHistory_set" /\ task'[t].pc # "importHistory_set")
         => \A m \in Ids(videos) :
              LET incoming == RecordsOf(task[t].imported, m)
                  counts == {videos[i].rewatchCount : i \in RecordsOf(videos, m)}
                              \cup {task[t].imported[i].rewatchCount : i \in incoming}
              IN (incoming # {} /\ \A c \in counts : c >= 1)
                   => /\ Cardinality(RecordsOf(videos', m)) = 1
                      /\ \A i \in RecordsOf(videos', m) :
                           videos'[i].rewatchCount = SetMax(counts)]_vars

\* An import of a record with count 3 has returned and the stored record of
\* its mediaId has count 5.
C8_ExistingFiveIncomingThreeWitness ==
  \E t \in Tasks :
    /\ task[t].pc = "done"
    /\ task[t].op = "importHistory"
    /\ task[t].imported = <<ImportRecord("a", "plain talk", 0, 3, "Music", "high")>>
    /\ \E i \in 1..Len(videos) :
         videos[i].videoId = "a" /\ videos[i].rewatchCount = 5

(***************************************************************************)
(* Properties of the settings (SpecSettings).                              *)
(***************************************************************************)
\* C6: toggling tracking from the popup changes only trackingEnabled in the
\* persisted settings: the API key, the watch thresholds, the retention
\* choice and the AI flag stored before the toggle are unchanged after it.
C6_ToggleChangesOnlyTracking ==
  [][popupTracking' # popupTracking
       => \A k \in DOMAIN settings \ {"trackingEnabled"} : settings'[k] = settings[k]]_vars

(***************************************************************************)
(* Properties of the categorization queue (SpecQueue).                     *)
(***************************************************************************)
JobsFor(m) == Cardinality({i \in 1..Len(aiQueue) : aiQueue[i].videoId = m})

\* C9: if the same mediaId is enqueued twice (or more) before its job is
\* dequeued, the queue holds a single job for it, so that the worker's next
\* dequeue of that mediaId answers all of those calls with one processing:
\* the queue holds exactly one job for an id with calls since its last
\* dequeue, and none for an id without.
C9_QueueDedup ==
  \A m \in MediaIds : JobsFor(m) = IF pending[m] > 0 THEN 1 ELSE 0

\* An id has been enqueued twice since its job was last dequeued.
C9_EnqueuedTwiceWitness ==
  \E m \in MediaIds : pending[m] >= 2 /\ JobsFor(m) = 1

\* C10: when both the primary and the fallback classifier call fail for a
\* job, the category the worker writes back for it is 'Uncategorized' with
\* confidence 'low'.
C10_BothFailUncategorized ==
  \A w \in Workers :
    (worker[w].primary = "throw" /\ worker[w].fallback = "throw")
      => worker[w].category = "Uncategorized" /\ worker[w].confidence = "low"

InFlight == {w \in Workers : worker[w].pc # "idle"}

\* C11: at most one worker loop runs at any time: a call to start processing
\* while a loop is running returns without dequeuing anything, so at most one
\* job is in flight (dequeued and not yet written back), and a loop runs
\* exactly when queueProcessing is set.
C11_SingleWorkerLoop ==
  /\ Cardinality(InFlight) <= 1
  /\ queueProcessing <=> InFlight # {}

\* A loop is running with its job in flight while another job, enqueued by a
\* call that found the loop running, waits in the queue.
C11_StartWhileRunningWitness ==
  /\ queueProcessing
  /\ Cardinality(InFlight) = 1
  /\ aiQueue # <<>>
  /\ \E w \in InFlight : worker[w].pc \in {"callPrimary", "callFallback"}

\* The worker's job is past its classification.
Classified(wk) == wk.pc \in {"updateVideo_get", "updateVideo_set", "delay"}

\* C18: when the primary model's response cannot be parsed as JSON or lacks
\* the category field, this counts as a failure of the primary model: the
\* fallback model is called for that job before a result is written back.
C18_MalformedPrimaryCallsFallback ==
  \A w \in Workers :
    (/\ Classified(worker[w])
     /\ \/ worker[w].primary = "badjson"
        \/ worker[w].primary = "json" /\ worker[w].fallback = Null
             /\ worker[w].parsed.category = Null)
      => worker[w].fallback # Null

\* The worker awaits a classifier call.
AwaitsCall(wk) == wk.pc \in {"callPrimary", "callFallback"}

\* C19: a classifier call that never responds is treated as a failure after
\* a bounded time, so the job goes on to its write-back and delay and the
\* worker dequeues the jobs still queued: a call awaited by the worker leads
\* to the delay after its job, and a job in the queue leads to its dequeue.
C19_UnansweredCallNeverBlocks ==
  /\ \A w \in Workers : AwaitsCall(worker[w]) ~> (worker[w].pc = "delay")
  /\ (aiQueue # <<>>) ~> (aiQueue = <<>>)

\* The step takes a job from the queue into slot w.
Dequeues(w) == worker'[w].pc = "getSettings" /\ worker'[w] # worker[w]

\* C20: after every dequeued job, whether it succeeded, failed or was resolved
\* without a network call, the worker waits the delay before the next
\* dequeue.  A step that dequeues is the end of the delay after the previous
\* job, or the start of a loop while no loop runs; a loop ends only at the
\* end of a delay; and a job leaves the queue only in a dequeuing step.
C20_DelayBeforeNextDequeue ==
  [][/\ \A w \in Workers :
          /\ Dequeues(w) =>
               \/ worker[w].pc = "delay"
               \/ ~queueProcessing /\ \A v \in Workers : worker[v].pc = "idle"
          /\ (worker'[w].pc = "idle" /\ worker[w].pc # "idle") => worker[w].pc = "delay"
     /\ Len(aiQueue') < Len(aiQueue) => \E w \in Workers : Dequeues(w)]_vars

\* A job resolved without a network call is at its delay while another job
\* waits in the queue.
C20_DelayWithJobWaitingWitness ==
  \E w \in Workers :
    /\ worker[w].pc = "delay"
    /\ worker[w].primary = Null
    /\ aiQueue # <<>>

\* The worker's job was dequeued with the AI features disabled or no key.
DequeuedUnconfigured(wk) ==
  /\ wk.pc \notin {"idle", "getSettings"}
  /\ ~wk.settings.aiFeaturesEnabled \/ wk.settings.openRouterApiKey = ""

\* C17: if at dequeue time the AI features are disabled or no API key is
\* configured, although they were at enqueue time, the job is resolved
\* without a classifier call and the write-back sets its record to
\* Uncategorized/low.
C17_UnconfiguredAtDequeue ==
  [][\A w \in Workers :
       /\ DequeuedUnconfigured(worker'[w])
            => /\ worker'[w].primary = Null
               /\ worker'[w].fallback = Null
               /\ worker'[w].pc \in {"updateVideo_get", "updateVideo_set", "delay"}
       /\ (DequeuedUnconfigured(worker[w]) /\ worker[w].pc = "updateVideo_set"
             /\ worker'[w].pc = "delay")
            => \E i \in 1..Len(videos') :
                 /\ videos'[i].videoId = worker[w].job.videoId
                 /\ videos'[i].aiCategory = "Uncategorized"
                 /\ videos'[i].aiCategoryConfidence = "low"]_vars

\* A job enqueued while a key was saved has been resolved after the key was
\* gone: its record is Uncategorized/low and no call was made.
C17_ResolvedWithoutCallWitness ==
  \E w \in Workers :
    /\ worker[w].pc = "delay"
    /\ worker[w].settings.openRouterApiKey = ""
    /\ worker[w].primary = Null
    /\ \E i \in 1..Len(videos) :
         /\ videos[i].videoId = worker[w].job.videoId
         /\ videos[i].aiCategory = "Uncategorized"

(***************************************************************************)
(* Properties of the weekly report and of CLEAR_DATA (SpecReport).         *)
(***************************************************************************)
\* No stored record was watched within the 7 days before the given instant.
NoneWithinLastWeek(instant) ==
  \A i \in 1..Len(videos) :
    ~(instant - 7 <= videos[i].watchedAt /\ videos[i].watchedAt <= instant)

\* No stored record is dated at or after the given instant minus 7 days.
NoneSinceLastWeek(instant) ==
  \A i \in 1..Len(videos) : videos[i].watchedAt < instant - 7

ReportAnswered(t) == task[t].pc = "done" /\ task[t].op = "GENERATE_WEEKLY_REPORT"

\* C12 as stated: GENERATE_WEEKLY_REPORT invoked when no record has watchedAt
\* within the last 7 days fails with the 'no recent history' error and makes
\* no classifier call.
C12_EmptyWindowFails ==
  \A t \in Tasks :
    (ReportAnswered(t) /\ NoneWithinLastWeek(now))
      => /\ task[t].result = "error"
         /\ task[t].error = "No watch history in the past 7 days"
         /\ task[t].calls = 0

\* C12 as amended: with AI enabled and a key configured, GENERATE_WEEKLY_REPORT
\* invoked when no record is dated at or after now minus 7 days fails with
\* the 'no recent history' error; with AI disabled or no key it fails with
\* the configuration error; in both cases no classifier call is made.
C12_EmptyWindowFailsWhenConfigured ==
  \A t \in Tasks :
    ReportAnswered(t) =>
      /\ (~settings.aiFeaturesEnabled \/ settings.openRouterApiKey = "")
           => /\ task[t].result = "error"
              /\ task[t].error = "AI disabled or API key missing"
              /\ task[t].calls = 0
      /\ (settings.aiFeaturesEnabled /\ settings.openRouterApiKey # ""
            /\ NoneSinceLastWeek(now))
           => /\ task[t].result = "error"
              /\ task[t].error = "No watch history in the past 7 days"
              /\ task[t].calls = 0

\* A report was asked for, with a key configured, of a store that holds
\* nothing but a record watched 8 days ago, and was refused.
C12_OldRecordOnlyWitness ==
  \E t \in Tasks :
    /\ ReportAnswered(t)
    /\ settings.openRouterApiKey # ""
    /\ settings.aiFeaturesEnabled
    /\ Len(videos) = 1
    /\ now - videos[1].watchedAt = 8
    /\ task[t].error = "No watch history in the past 7 days"

\* C16: after the CLEAR_DATA command completes, the videos collection is
\* empty and the report cache is absent, whatever the store and the cache
\* held when the command arrived.
C16_ClearDataEmptiesStoreAndCache ==
  [][\A t \in Tasks :
       (task[t].op = "CLEAR_DATA" /\ task[t].pc # "done" /\ task'[t].pc = "done")
         => /\ videos' = <<>>
            /\ reportCache' = NoReport
            /\ task'[t].result = "cleared"]_vars

\* CLEAR_DATA has completed as the third command, after an import and a
\* report, and nothing is left.
C16_ClearedAfterReportWitness ==
  \E t \in Tasks :
    /\ task[t].pc = "done"
    /\ task[t].op = "CLEAR_DATA"
    /\ started = 3
    /\ settings.openRouterApiKey # ""
    /\ videos = <<>>
    /\ reportCache = NoReport

(***************************************************************************)
(* Properties of the settings form (SpecSettings).                         *)
(***************************************************************************)
\* C13: saving the settings form with a minWatchPercent that is no number or
\* lies outside 10..80 (200, for one) stores the last valid percent the form
\* was working from, which is the stored percent whenever the dashboard has
\* seen the last change of the store: the stored value is never the value
\* submitted, and is the hardcoded 40 only if 40 was that prior value.
C13_InvalidPercentKeepsLast ==
  [][\A form \in Forms :
       (HandleSettingsSubmit(form) /\ form.settingWatchPercent \notin 10..80)
         => /\ settings'.minWatchPercent = dashSettings.minWatchPercent
            /\ settings'.minWatchPercent \in 10..80
            /\ settings'.minWatchPercent # form.settingWatchPercent
            /\ dashSettings.minWatchPercent = settings.minWatchPercent
                 => settings'.minWatchPercent = settings.minWatchPercent]_vars

\* The form was last submitted with 200 and the stored percent is the 25
\* saved before.
C13_Submitted200Kept25Witness ==
  /\ submitted = 200
  /\ settings.minWatchPercent = 25
  /\ dashSettings.minWatchPercent = 25

(***************************************************************************)
(* Properties of the refused watch events (SpecGate).                      *)
(***************************************************************************)
\* The step of handler t that finds the event without a mediaId.
RefusedForIdentity(t) ==
  /\ task[t].pc = "idle"
  /\ task'[t].op = "VIDEO_WATCHED"
  /\ task'[t].video.videoId = Null

\* The step of handler t that reads the settings and finds the tracking
\* disabled, or the event an autoplay one with trackAutoplay off.
RefusedBySettings(t) ==
  /\ task[t].pc = "handleVideoWatched_getSettings"
  /\ task'[t] # task[t]
  /\ \/ ~settings.trackingEnabled
     \/ task[t].video.autoplay /\ ~settings.trackAutoplay

NoOpFor(t) ==
  /\ task'[t].pc = "done"
  /\ videos' = videos
  /\ aiQueue' = aiQueue
  /\ worker' = worker

\* C14 as stated: VIDEO_WATCHED is refused as a no-op with a 'skipped' result
\* when tracking is disabled, when the event is autoplay and trackAutoplay is
\* off, or when the mediaId is missing; in all three cases the videos
\* collection and the job queue are unchanged.
C14_RefusedAsSkipped ==
  [][\A t \in Tasks :
       (RefusedForIdentity(t) \/ RefusedBySettings(t))
         => NoOpFor(t) /\ task'[t].result = "skipped"]_vars

\* C14 as amended: VIDEO_WATCHED is refused as a no-op, with a 'skipped'
\* result when tracking is disabled or when the event is autoplay and
\* trackAutoplay is off, and with the error 'Missing video id' when the
\* mediaId is missing; in all three cases the videos collection and the job
\* queue are unchanged.
C14_RefusedSkippedOrError ==
  [][\A t \in Tasks :
       /\ RefusedBySettings(t) => NoOpFor(t) /\ task'[t].result = "skipped"
       /\ RefusedForIdentity(t)
            => /\ NoOpFor(t)
               /\ task'[t].result = "error"
               /\ task'[t].error = "Missing video id"]_vars

\* An autoplay event has been skipped while a record is stored and a job is
\* queued behind the one in flight.
C14_AutoplaySkippedWitness ==
  \E t \in Tasks :
    /\ task[t].pc = "done"
    /\ task[t].result = "skipped"
    /\ task[t].videoId = "b"
    /\ settings.trackingEnabled
    /\ videos # <<>>
    /\ queueProcessing

(***************************************************************************)
(* Properties of the message listener (SpecMessage).                       *)
(***************************************************************************)
Unanswered == {t \in Tasks : task[t].pc # "idle"}

\* C15: every command message, one of unknown type and one whose handler
\* throws included, is answered with exactly one result, {success:true,
\* data} when the handler returned and {success:false, error} carrying the
\* error's message when it threw: the answers sent and the messages still
\* being handled add up to the messages received, and no answer has another
\* shape.
C15_ExactlyOneResult ==
  [][/\ answers'.sent + Cardinality(Unanswered') = started'
     /\ \A t \in Tasks :
          (task[t].pc = "done" /\ task'[t].pc = "idle")
            => LET threw == \/ task[t].op = "unknown"
                            \/ task[t].op = "VIDEO_WATCHED" /\ task[t].videoId = Null
                            \/ task[t].error # "none"
               IN /\ answers'.sent = answers.sent + 1
                  /\ answers'.type = task[t].op
                  /\ threw => /\ DOMAIN answers'.answer = {"success", "error"}
                              /\ ~answers'.answer.success
                              /\ answers'.answer.error = task[t].error
                              /\ answers'.answer.error # "none"
                  /\ ~threw => /\ DOMAIN answers'.answer = {"success", "data"}
                               /\ answers'.answer.success
                               /\ answers'.answer.data = task[t].result]_vars

\* Three messages have been answered, the last one a message of unknown
\* type, with a failure.
C15_UnknownTypeAnsweredWitness ==
  /\ answers.sent = 3
  /\ answers.type = "unknown"
  /\ answers.answer = [success |-> FALSE, error |-> "Unknown message type"]
  /\ Unanswered = {}

(***************************************************************************)
(* Properties of the worker's write-back against deletions                 *)
(* (SpecWriteBack).                                                        *)
(***************************************************************************)
\* The step is one of the worker's updateVideo in slot w.
WriteBackStep(w) ==
  /\ worker[w].pc \in {"updateVideo_get", "updateVideo_set"}
  /\ worker'[w] # worker[w]

\* C21: updateVideo for a mediaId that is absent changes nothing, and a
\* write-back that races with a delete never brings a deleted record back:
\* no step of the worker's updateVideo changes the store when its mediaId is
\* absent from it, and none adds a mediaId to the store.
C21_WriteBackNeverRestores ==
  [][\A w \in Workers :
       WriteBackStep(w) =>
         /\ worker[w].job.videoId \notin Ids(videos) => videos' = videos
         /\ Ids(videos') \subseteq Ids(videos)]_vars

(***************************************************************************)
(* Properties of the persisted settings (SpecSanitize).                    *)
(***************************************************************************)
ValidSettings(s) ==
  /\ s.minWatchPercent \in 10..80
  /\ s.minWatchTimeSeconds >= 60
  /\ s.dataRetention \in RetentionOptions
  /\ {s.trackAutoplay, s.countHiddenTime, s.aiFeaturesEnabled, s.trackingEnabled}
       \subseteq BOOLEAN

\* C22: every settings value persisted by the dashboard (on load and on form
\* submit) or by the popup toggle has minWatchPercent in 10..80,
\* minWatchTimeSeconds >= 60, dataRetention in {all, 3m, 6m, 1y} and boolean
\* flags, whatever the form or the previous stored record contained.
C22_PersistedSettingsValid ==
  [][(\/ LoadInitialData
      \/ TrackingToggleClick
      \/ \E form \in SanitizeForms : HandleSettingsSubmit(form))
       => ValidSettings(settings')]_vars

\* A form with percent 81 and 0 minutes was saved over the record found out
\* of range in storage.
C22_OutOfRangeFormSavedWitness ==
  /\ submitted = 81
  /\ ValidSettings(settings)
  /\ settings.minWatchTimeSeconds = 300
  /\ settings.dataRetention = "3m"

\* C26: every persisted record has an integer rewatchCount >= 1 after any
\* sequence of upsert, update and importMerge operations (a missing count is
\* 0 in the model).
C26_RewatchCountAtLeastOne ==
  \A i \in 1..Len(videos) : videos[i].rewatchCount >= 1

(***************************************************************************)
(* Properties of an import's payload (SpecPayload).                        *)
(***************************************************************************)
\* The last record of mediaId m in an import file.
LastOf(imported, m) == imported[SetMax(RecordsOf(imported, m))]

\* C23: an import whose payload is not an array fails with an error and
\* leaves the store unchanged; within an array, records without a mediaId
\* are skipped and every record with a mediaId is merged: the write of the
\* import leaves exactly one record for each mediaId stored or imported, no
\* record without one, the fields of the last imported record for an
\* imported mediaId and the stored record as it was for the others.
C23_ImportPayload ==
  [][/\ \A parsed \in ImportPayloads :
          (~parsed.isArray /\ ImportHistory(SeqTask, parsed))
            => /\ videos' = videos
               /\ task'[SeqTask].pc = "done"
               /\ task'[SeqTask].result = "error"
               /\ task'[SeqTask].error = "Imported data must be an array"
     /\ task[SeqTask].op = "importHistory" /\ task[SeqTask].error # "none"
          => videos' = videos
     /\ (task[SeqTask].pc = "importHistory_set" /\ task'[SeqTask].pc # "importHistory_set")
          => LET imported == task[SeqTask].imported IN
             /\ Ids(videos') = Ids(videos) \cup (Ids(imported) \ {Null})
             /\ \A m \in Ids(videos') : Cardinality(RecordsOf(videos', m)) = 1
             /\ \A i \in 1..Len(videos') :
                  LET m == videos'[i].videoId IN
                  IF m \in Ids(imported)
                  THEN \A k \in DOMAIN videos'[i] \ {"rewatchCount"} :
                         videos'[i][k] = LastOf(imported, m)[k]
                  ELSE videos'[i] \in {videos[j] : j \in 1..Len(videos)}]_vars

\* An import of a record without a mediaId followed by a record of b has
\* returned, and the store holds b only.
C23_SkippedOneMergedOneWitness ==
  /\ task[SeqTask].pc = "done"
  /\ task[SeqTask].op = "importHistory"
  /\ task[SeqTask].result = "imported"
  /\ task[SeqTask].imported = <<ImportRecord(Null, "plain talk", 0, 3, Null, Null),
                                ImportRecord("b", "plain talk", 0, 0, Null, Null)>>
  /\ Ids(videos) = {"b"}

(***************************************************************************)
(* Properties of CATEGORIZE_PENDING (SpecPending).                         *)
(***************************************************************************)
\* The mediaIds of the stored records without a category.
Uncategorized(vs) ==
  {vs[i].videoId : i \in {j \in 1..Len(vs) :
                            vs[j].aiCategory \in {Null, "Uncategorized"}}}

\* The mediaIds of the jobs that the step hands to a worker slot.
Taken == {worker'[w].job.videoId : w \in {v \in Workers : worker'[v] # worker[v]}}

\* C24: enqueuePending enqueues a job for exactly the stored records whose
\* category is empty or 'Uncategorized', at most one job per mediaId, and
\* for no record that carries any other category: after its step the jobs
\* queued or handed to the worker are those queued before and those of the
\* records without a category, each mediaId once.
C24_EnqueuePendingExact ==
  [][(task[SeqTask].pc = "pending_getHistory" /\ task'[SeqTask].pc # "pending_getHistory")
       => /\ Ids(aiQueue') \cup Taken = Ids(aiQueue) \cup Uncategorized(videos)
          /\ Ids(aiQueue') \cap Taken = {}
          /\ Cardinality(Taken) <= 1
          /\ Len(aiQueue') = Cardinality(Ids(aiQueue'))]_vars

\* CATEGORIZE_PENDING has returned with a classified as Music and b
\* Uncategorized in the store: b's job is with the worker, none is queued.
C24_OnlyUncategorizedQueuedWitness ==
  /\ task[SeqTask].pc = "done"
  /\ task[SeqTask].op = "CATEGORIZE_PENDING"
  /\ \E i, j \in 1..Len(videos) :
       /\ videos[i].videoId = "a" /\ videos[i].aiCategory = "Music"
       /\ videos[j].videoId = "b" /\ videos[j].aiCategory = "Uncategorized"
  /\ \E w \in Workers : worker[w].pc = "getSettings" /\ worker[w].job.videoId = "b"
  /\ aiQueue = <<>>

(***************************************************************************)
(* Properties of the stored categories (SpecLabels).                       *)
(***************************************************************************)
\* C25: in every reachable state each persisted record's category is null or
\* a member of the fixed category set, whatever text the classifier returns
\* and whatever records are imported.
C25_CategoriesInFixedSet ==
  \A i \in 1..Len(videos) : videos[i].aiCategory \in {Null} \cup VIDEO_CATEGORIES

(***************************************************************************)
(* Properties of the eventual write-back (SpecClassifyAnswered).           *)
(***************************************************************************)
\* The stored record of mediaId m has a category.
Categorized(m) ==
  \E i \in 1..Len(videos) : videos[i].videoId = m /\ videos[i].aiCategory # Null

\* C27: every record upserted while AI features are enabled and a key is
\* configured eventually has a non-null category written back, when each
\* classifier call returns or fails and the worker's steps are fair.
C27_UpsertedEventuallyCategorized ==
  \A m \in MediaIds : (m \in Ids(videos)) ~> Categorized(m)

(***************************************************************************)
(* Properties of the order of dispatch (SpecPending).                      *)
(***************************************************************************)
\* Queue q2 is queue q1 with jobs added at its end.
Extends(q1, q2) == Len(q2) >= Len(q1) /\ SubSeq(q2, 1, Len(q1)) = q1

\* C28: jobs are dispatched to the classifier in enqueue order, and a job's
\* classification starts after the previous one has finished.  Jobs are
\* added at the end of the queue and leave it at its head only; the job a
\* dequeuing step takes is the oldest one queued; and the step is taken
\* while no other job is between its dequeue and its delay.
C28_DispatchInEnqueueOrder ==
  [][/\ \/ Extends(aiQueue, aiQueue')
        \/ /\ aiQueue # <<>>
           /\ Extends(Tail(aiQueue), aiQueue')
           /\ \E w \in Workers : Dequeues(w)
     /\ \A w \in Workers :
          Dequeues(w) =>
            /\ aiQueue # <<>> => worker'[w].job = Head(aiQueue)
            /\ worker[w].pc \in {"idle", "delay"}
            /\ \A v \in Workers \ {w} : worker[v].pc = "idle"]_vars

\* The result of a's job is written and b's job, enqueued after it, is at
\* the classifier; a new job of a waits in the queue behind it.
C28_SecondJobAfterFirstWitness ==
  /\ \E w \in Workers :
       /\ worker[w].pc = "callPrimary"
       /\ worker[w].job.videoId = "b"
  /\ Categorized("a")
  /\ ~Categorized("b")
  /\ JobsFor("a") = 1

(***************************************************************************)
(* Properties of the detector's samples (SpecDetector).                    *)
(***************************************************************************)
\* The sample is dropped: the player is paused or ended, its duration is
\* not known, or the page is hidden and hidden time does not count.
Dropped ==
  \/ page.playback \in {"paused", "ended"}
  \/ playerDuration(page) = 0
  \/ page.hidden /\ ~tracker.settings.countHiddenTime

\* C29: a poll sample taken while the player is paused, ended, has no known
\* duration, or while the page is hidden with countHiddenTime false leaves
\* watchedSeconds unchanged and emits nothing; every other sample adds
\* exactly one second to watchedSeconds (so it changes the state).
C29_SampleCountsOneOrNothing ==
  /\ [][Poll(MaxWatched) =>
          IF Dropped
          THEN tracker'.watchedSeconds = tracker.watchedSeconds /\ emitted' = emitted
          ELSE tracker'.watchedSeconds = tracker.watchedSeconds + 1]_vars
  /\ [](tracker.timers > 0 /\ tracker.watchedSeconds < MaxWatched /\ ~Dropped
          => ENABLED <<Poll(MaxWatched)>>_vars)

\* Three samples have counted and the next one will be dropped: the media
\* plays in a hidden page and hidden time does not count.
C29_CountedThenHiddenWitness ==
  /\ tracker.timers > 0
  /\ tracker.watchedSeconds = 3
  /\ page.playback = "playing"
  /\ page.hidden
  /\ ~tracker.settings.countHiddenTime

(***************************************************************************)
(* Properties of the autoplay flag (SpecAutoplay).                         *)
(***************************************************************************)
\* C30: the emitted event has autoplay = true exactly when, at the first
\* 'playing' transition after the mediaId was armed, no pointer or key
\* interaction had been captured and at most 2 seconds had elapsed since
\* arming; later interactions or playing events do not change the flag for
\* that mediaId.
C30_AutoplayFixedAtFirstPlaying ==
  /\ [](tracker.sent # "none"
          => (tracker.sent = "true" <=> tracker.firstPlaying = "autoplay"))
  /\ [][(tracker.firstPlaying # "none" /\ tracker'.firstPlaying = tracker.firstPlaying)
          => tracker'.autoplayDetected = tracker.autoplayDetected]_vars

(***************************************************************************)
(* Properties of the report cache (SpecReport).                            *)
(***************************************************************************)
\* C31: GENERATE_WEEKLY_REPORT overwrites the report cache with the content
\* and the instant of generation only after a classifier round returned
\* content; when generation fails (AI disabled or no key, empty window, an
\* error of both models, an answer without content) the cache keeps what it
\* held and the command ends with the error.
C31_ReportCacheOnlyAfterContent ==
  [][\A t \in Tasks :
       task[t].op = "GENERATE_WEEKLY_REPORT" =>
         /\ (task[t].pc # "saveReport" /\ task'[t].pc = "saveReport")
              => \E r \in ReportResponses :
                   /\ r.kind = "content"
                   /\ ReportCallPrimary(t, r) \/ ReportCallFallback(t, r)
         /\ reportCache' # reportCache
              => /\ task[t].pc = "saveReport"
                 /\ reportCache' = [content |-> "report", generatedAt |-> now]
                 /\ task'[t].result = "report"
                 /\ task[t].calls >= 1
                 /\ settings.aiFeaturesEnabled /\ settings.openRouterApiKey # ""
                 /\ recentFilter(videos, now) # <<>>
         /\ (task[t].pc # "done" /\ task'[t].pc = "done" /\ task[t].pc # "saveReport")
              => /\ task'[t].result = "error"
                 /\ task'[t].error # "none"
                 /\ reportCache' = reportCache]_vars

\* A report generated at an earlier instant is still in the cache after a
\* later generation failed on both models.
C31_FailedAfterReportWitness ==
  \E t \in Tasks :
    /\ ReportAnswered(t)
    /\ task[t].result = "error"
    /\ task[t].error = "OpenRouter error"
    /\ task[t].calls = 2
    /\ reportCache.content = "report"
    /\ reportCache.generatedAt < now

\* C32: the dashboard's 'clear data' action, once confirmed, deletes all
\* stored history and reports: when it completes the videos collection is
\* empty and the report cache is absent.
C32_DashboardClearEmptiesCache ==
  [][\A t \in Tasks :
       (task[t].op = "clearData" /\ task[t].pc # "done" /\ task'[t].pc = "done")
         => /\ videos' = <<>>
            /\ reportCache' = NoReport]_vars

(***************************************************************************)
(* Properties of the worker loop under overlapping watch events            *)
(* (SpecQueue).                                                            *)
(***************************************************************************)
\* C33: whenever the job queue is non-empty between two turns of the event
\* loop, a worker loop is running (queueProcessing is true), so a job
\* enqueued while the worker is finishing its last job is not left stranded:
\* the loop's exit test and the reset of the flag are one turn.
C33_QueuedImpliesLoopRunning ==
  aiQueue # <<>> => (queueProcessing /\ InFlight # {})

\* A job waits in the queue while the loop is in the delay that follows the
\* write-back of another mediaId's job.
C33_EnqueuedDuringLastJobWitness ==
  \E w \in Workers :
    /\ worker[w].pc = "delay"
    /\ Len(aiQueue) = 1
    /\ aiQueue[1].videoId # worker[w].job.videoId
    /\ queueProcessing

(***************************************************************************)
(* Properties of the detector's timers and emissions (SpecDetector).       *)
(***************************************************************************)
\* C34: at most one sampling timer is active at any time, for any sequence
\* of identity changes, including a change that happens while the detector
\* is still waiting for the player of the previous identity.
C34_AtMostOneTimer == tracker.timers <= 1

(***************************************************************************)
(* Properties of a store whose reads can fail (SpecReadFailure).           *)
(***************************************************************************)
\* The mediaIds an operation is about.
Subjects(tk) ==
  IF tk.op = "VIDEO_WATCHED" THEN {tk.video.videoId}
  ELSE IF tk.op = "importHistory" THEN Ids(tk.imported)
  ELSE {tk.videoId}

\* C35: a storage read failure during upsert, delete or importMerge leaves
\* the previously persisted records unchanged: the operation's write does
\* not replace the collection with a result computed from the empty list of
\* the failed read, so every stored record of a mediaId the operation is not
\* about is still stored, as it was, after the write.
C35_ReadFailureKeepsRecords ==
  [][\A t \in Tasks :
       (/\ task[t].error = "storage.getVideos failed"
        /\ task[t].pc \in {"saveVideo_set", "deleteVideo_set", "importHistory_set"}
        /\ task'[t].pc # task[t].pc)
         => \A i \in 1..Len(videos) :
              videos[i].videoId \notin Subjects(task[t])
                => \E j \in 1..Len(videos') : videos'[j] = videos[i]]_vars

(***************************************************************************)
(* Properties of a rewatch of a categorized record (SpecRewatch).          *)
(***************************************************************************)
\* The stored records of a mediaId all carry this category and confidence.
Carries(vs, m, category, confidence) ==
  \A i \in 1..Len(vs) :
    vs[i].videoId = m
      => vs[i].aiCategory = category /\ vs[i].aiCategoryConfidence = confidence

\* C36: upserting a detector event for a mediaId that already has a category
\* overwrites the record's category and confidence with the event's null
\* values; with AI off the handler's own update then sets 'Uncategorized'
\* and 'low'.  A categorized record is uncategorized after every rewatch.
C36_RewatchClearsCategory ==
  [][\A t \in Tasks :
       task[t].op = "VIDEO_WATCHED" =>
         /\ (task[t].pc = "saveVideo_set" /\ task'[t].pc # "saveVideo_set")
              => /\ Carries(videos', task[t].video.videoId, Null, Null)
                 /\ findIndex(videos', task[t].video.videoId) > 0
         /\ (task[t].pc = "updateVideo_set" /\ task'[t].pc # "updateVideo_set")
              => Carries(videos', task[t].video.videoId, "Uncategorized", "low")]_vars

\* The second command is the upsert of a watch event of a with AI off, after
\* the import of a's record with category Music and rewatchCount 1: the
\* record written has rewatchCount 2 and no category.
C36_MusicRecordRewatchedWitness ==
  \E t \in Tasks :
    /\ started = 2
    /\ task[t].op = "VIDEO_WATCHED"
    /\ task[t].pc = "updateVideo_get"
    /\ task[t].video.videoId = "a"
    /\ Len(videos) = 1
    /\ videos[1].videoId = "a"
    /\ videos[1].rewatchCount = 2
    /\ videos[1].aiCategory = Null

(***************************************************************************)
(* Properties of repeated imports (SpecReimport).                          *)
(***************************************************************************)
\* The import of the store's own export, on a store whose records all have
\* a rewatchCount of at least 1, writes the store as it was.
ExportImportIsIdentity(t) ==
  (/\ task[t].pc = "importHistory_set"
   /\ task'[t].pc = "done"
   /\ task[t].imported = exportJson(videos)
   /\ \A i \in 1..Len(videos) : videos[i].rewatchCount >= 1)
    => videos' = videos

\* The import of the file whose import has just returned writes the store
\* as the first import left it.
SecondImportChangesNothing(t) ==
  (/\ task[t].pc = "importHistory_set"
   /\ task'[t].pc = "done"
   /\ \E first \in Tasks \ {t} :
        /\ task[first].pc = "done"
        /\ task[first].op = "importHistory"
        /\ task[first].result = "imported"
        /\ task[first].imported = task[t].imported)
    => videos' = videos

\* C37: importMerge is idempotent, and importing the store's own export is
\* the identity: for any store whose records have rewatchCount >= 1,
\* importing the output of exportHistory leaves every record and the record
\* order unchanged, and importing any array twice gives the same store as
\* importing it once.
C37_ImportIdempotent ==
  [][\A t \in Tasks : ExportImportIsIdentity(t) /\ SecondImportChangesNothing(t)]_vars

(***************************************************************************)
(* Properties of CATEGORIZE_PENDING's answer (SpecPending).                *)
(***************************************************************************)
\* C38: when the queue is empty and no worker loop is running,
\* CATEGORIZE_PENDING returns queued equal to the number of stored records
\* that have no category or the category 'Uncategorized'.
C38_QueuedCountsUncategorized ==
  [][\A t \in Tasks :
       (/\ task[t].pc = "pending_getHistory"
        /\ task'[t].pc = "done"
        /\ aiQueue = <<>>
        /\ ~queueProcessing)
         => task'[t].queued = Cardinality(Uncategorized(videos))]_vars

(***************************************************************************)
(* Properties of the dedup while a job is in flight (SpecPending).         *)
(***************************************************************************)
\* The mediaIds whose job a worker slot holds, dequeued and not yet done.
BeingClassified == {worker[w].job.videoId : w \in InFlight}

\* The mediaIds that the step calls queueCategorizationJob with: the event's
\* when handleVideoWatched returns 'stored' (AI is on), the uncategorized
\* records' when enqueuePendingVideos returns.
Enqueued(t) ==
  IF task'[t].pc # "done" \/ task[t].pc = "done" THEN {}
  ELSE IF task[t].op = "VIDEO_WATCHED" /\ task'[t].result = "stored"
  THEN {task[t].video.videoId}
  ELSE IF task[t].op = "CATEGORIZE_PENDING" THEN Uncategorized(videos)
  ELSE {}

\* C39: deduplication covers only jobs still in the queue: a mediaId whose
\* job has been dequeued and is being classified is enqueued again by a
\* rewatch or by enqueuePending (the queue holds a new job of it after the
\* call), and every job dequeued is dispatched to the classifier, whether or
\* not its mediaId was dispatched before.
C39_InFlightEnqueuedAgain ==
  [][/\ \A t \in Tasks : (Enqueued(t) \cap BeingClassified) \subseteq Ids(aiQueue')
     /\ \A w \in Workers :
          (worker[w].pc = "getSettings" /\ worker'[w].pc # "getSettings")
            => worker'[w].pc = "callPrimary"]_vars

\* The second of two watch events of a was enqueued while a's first job was
\* with the classifier: that job's Music has been written back over the
\* rewatched record, and a's second job is with the classifier.
C39_DispatchedSecondTimeWitness ==
  \E w \in Workers :
    /\ started = 2
    /\ worker[w].pc = "callPrimary"
    /\ worker[w].job.videoId = "a"
    /\ \E i \in 1..Len(videos) :
         /\ videos[i].videoId = "a"
         /\ videos[i].rewatchCount = 2
         /\ videos[i].aiCategory = "Music"

\* C40: after the page URL changes to one without a media id, the detector
\* sends no watch event until a new mediaId is armed: neither a poll nor an
\* 'ended' event of the previous player sends an event for the previous
\* mediaId.
C40_NoEventWithoutMediaId ==
  [][page.v = Null => emitted' <= emitted]_vars

=============================================================================
